---- MODULE Spec2Model ----
(***************************************************************************)
(* A model of the type-theoretic core of the RowScript compiler: the       *)
(* global definition table Sigma with its metavariables, the unifier, the  *)
(* normalizer, the resolver's name map, and the elaborator's local         *)
(* context Gamma.  Every operator is a transcription of the function of    *)
(* the same name in core/src/theory.                                       *)
(*                                                                         *)
(* A run of a fallible function is a record whose field st is "Ok", "Err", *)
(* "Panic" (an unwrap of None or an unreachable!()) or "Diverge" (the      *)
(* recursion did not end within MaxUnfold unfoldings).                     *)
(***************************************************************************)
EXTENDS Integers, Sequences, FiniteSets, TLC

VARIABLES
    sigma,      \* Elaborator.sigma: Var -> Def<Term> (absent keys map to Absent)
    nholes,     \* VarGen counter in units of holes (two metas per hole)
    op,         \* the last Sigma operation: its name, arguments and outcome
    names,      \* Resolver.0: display name -> Var (NoVar when unbound)
    rpc,        \* resolver driver position: "idle", "done" or "failed"
    rEntry,     \* the name map when the last Resolver::def call was entered
    rDef,       \* the Def<Expr> handed to the last Resolver::def call
    rOut,       \* outcome of the last Resolver::def call
    gamma,      \* Elaborator.gamma: the set of bound Vars with their types
    gpc,        \* elaborator driver position: "idle", "done" or "failed"
    gEntry,     \* Gamma when the last elaborator call was entered
    gCall,      \* the last elaborator call and its arguments
    gOut        \* outcome of the last elaborator call

sigVars == <<sigma, nholes, op>>
resVars == <<names, rpc, rEntry, rDef, rOut>>
gamVars == <<gamma, gpc, gEntry, gCall, gOut>>
vars == <<sigma, nholes, op, names, rpc, rEntry, rDef, rOut,
          gamma, gpc, gEntry, gCall, gOut>>

-----------------------------------------------------------------------------
(* Bounds of the model.                                                    *)

\* Holes elaborated into Sigma (each allocates a type meta and a term meta).
MaxHoles == 1
\* Unfoldings (recursive calls) a single unify or normalize call may make.
MaxUnfold == 8
\* Nested Driver::load calls the stack holds before it overflows.
MaxDepth == 4

-----------------------------------------------------------------------------
(* Terms (theory::abs::data::Term), as records tagged by constructor.      *)

Atom(t) == [tag |-> t]
Univ == Atom("Univ")
Number == Atom("Number")
String == Atom("String")
Boolean == Atom("Boolean")
RowSat == Atom("RowSat")
RowRefl == Atom("RowRefl")
ImplementsSat == Atom("ImplementsSat")
Ref(v) == [tag |-> "Ref", v |-> v]
\* The spine is the argument list of the meta; a hole elaborated under an
\* empty Gamma has an empty telescope and an empty spine.
MetaRef(v) == [tag |-> "MetaRef", v |-> v, sp |-> <<>>]
Undef(v) == [tag |-> "Undef", v |-> v]
Tuple(a, b) == [tag |-> "Tuple", a |-> a, b |-> b]
If(p, t, e) == [tag |-> "If", p |-> p, t |-> t, e |-> e]
Fields(f) == [tag |-> "Fields", f |-> f]
RowOrd(a, d, b) == [tag |-> "RowOrd", a |-> a, d |-> d, b |-> b]
RowEq(a, b) == [tag |-> "RowEq", a |-> a, b |-> b]
Object(r) == [tag |-> "Object", r |-> r]
Obj(r) == [tag |-> "Obj", r |-> r]
Enum(r) == [tag |-> "Enum", r |-> r]
Variant(r) == [tag |-> "Variant", r |-> r]
Switch(a, cs) == [tag |-> "Switch", a |-> a, cs |-> cs]
ImplementsOf(a, i) == [tag |-> "ImplementsOf", a |-> a, i |-> i]
Find(ty, i, f) == [tag |-> "Find", ty |-> ty, i |-> i, f |-> f]
Num(n) == [tag |-> "Num", n |-> n]
Str(s) == [tag |-> "Str", s |-> s]
Row == Atom("Row")
\* Param<Term>; every parameter of the model is Explicit.
TermParam(v, typ) == [var |-> v, typ |-> typ]
TermPi(p, b) == [tag |-> "Pi", p |-> p, b |-> b]
TermApp(f, x) == [tag |-> "App", f |-> f, x |-> x]
TermLet(p, a, b) == [tag |-> "Let", p |-> p, a |-> a, b |-> b]
TermLam(p, b) == [tag |-> "Lam", p |-> p, b |-> b]
TermTupleLet(p, q, a, b) == [tag |-> "TupleLet", p |-> p, q |-> q, a |-> a, b |-> b]
Combine(a, b) == [tag |-> "Combine", a |-> a, b |-> b]

\* The term t with x in place of the free references to the variable v.
RECURSIVE Subst(_, _, _)
Subst(t, v, x) ==
    IF t.tag = "Ref" THEN (IF t.v = v THEN x ELSE t)
    ELSE IF t.tag = "Tuple" THEN Tuple(Subst(t.a, v, x), Subst(t.b, v, x))
    ELSE IF t.tag = "If"
    THEN If(Subst(t.p, v, x), Subst(t.t, v, x), Subst(t.e, v, x))
    ELSE IF t.tag = "ImplementsOf" THEN ImplementsOf(Subst(t.a, v, x), t.i)
    ELSE IF t.tag = "Let"
    THEN TermLet(TermParam(t.p.var, Subst(t.p.typ, v, x)), Subst(t.a, v, x),
                 IF t.p.var = v THEN t.b ELSE Subst(t.b, v, x))
    ELSE IF t.tag = "Lam"
    THEN TermLam(TermParam(t.p.var, Subst(t.p.typ, v, x)),
                 IF t.p.var = v THEN t.b ELSE Subst(t.b, v, x))
    ELSE IF t.tag = "App" THEN TermApp(Subst(t.f, v, x), Subst(t.x, v, x))
    ELSE t

\* Term::lam(tele, tm): tm abstracted over the telescope from parameter k
\* on.
RECURSIVE LamTele(_, _, _)
LamTele(tele, k, tm) ==
    IF k > Len(tele) THEN tm
    ELSE TermLam(tele[k], LamTele(tele, k + 1, tm))
\* rename(tm): the binders of the Lams at the head of tm get fresh names
\* (the name primed), in the binder and in the references to it.
RECURSIVE Rename(_)
Rename(tm) ==
    IF tm.tag # "Lam" THEN tm
    ELSE TermLam(TermParam(tm.p.var \o "'", tm.p.typ),
                 Rename(Subst(tm.b, tm.p.var, Ref(tm.p.var \o "'"))))
\* `for (_, x) in sp { ret = App(ret, x) }` up to the k-th argument.
RECURSIVE AppSpine(_, _, _)
AppSpine(f, sp, k) ==
    IF k = 0 THEN f ELSE TermApp(AppSpine(f, sp, k - 1), sp[k])

\* Labels of rows, in the order a FieldMap is iterated.
LabelSeq == <<"A", "ANB", "B", "C">>
Labels == {LabelSeq[i] : i \in DOMAIN LabelSeq}
\* The labels of field map f, as a sequence in iteration order.
RECURSIVE LabelsFrom(_, _)
LabelsFrom(f, i) ==
    IF i > Len(LabelSeq) THEN <<>>
    ELSE IF LabelSeq[i] \in DOMAIN f
         THEN <<LabelSeq[i]>> \o LabelsFrom(f, i + 1)
         ELSE LabelsFrom(f, i + 1)
FieldLabels(f) == LabelsFrom(f, 1)
\* FieldMap::from([(n, x)])
OneField(n, x) == [l \in {n} |-> x]
\* FieldMap::insert
FieldInsert(f, n, x) == [l \in DOMAIN f \cup {n} |-> IF l = n THEN x ELSE f[l]]
\* (A merge that keeps the field already inserted.)
FieldsMergeKeep(a, b) ==
    [l \in DOMAIN a \cup DOMAIN b |-> IF l \in DOMAIN a THEN a[l] ELSE b[l]]
\* A fresh FieldMap after every field of a and then every field of b was
\* inserted into it.
FieldsMerge(a, b) ==
    [l \in DOMAIN a \cup DOMAIN b |-> IF l \in DOMAIN b THEN b[l] ELSE a[l]]

-----------------------------------------------------------------------------
(* Definitions (theory::abs::def::Def and Body) and Sigma.                 *)

None == [tag |-> "None"]
Some(t) == [tag |-> "Some", t |-> t]
MetaBody(s) == [tag |-> "Meta", s |-> s]
Undefined == [tag |-> "Undefined"]
Postulate == [tag |-> "Postulate"]
Alias(t) == [tag |-> "Alias", t |-> t]
Fun(t) == [tag |-> "Fun", t |-> t]
Interface(fns, ims) == [tag |-> "Interface", fns |-> fns, ims |-> ims]
Implements(i, ty, fns) == [tag |-> "Implements", i |-> i, ty |-> ty, fns |-> fns]
\* hist is a history field, not part of the Rust Def: the bodies the entry
\* has had since it was inserted, oldest first.
Def(tele, ret, body) == [tele |-> tele, ret |-> ret, body |-> body, hist |-> <<body>>]
\* The value of sigma at a key that was never inserted.
Absent == [tele |-> <<>>, ret |-> Univ, body |-> [tag |-> "Absent"], hist |-> <<>>]
\* An assignment `d.body = b` to an entry of Sigma.
SetBody(d, b) == IF b = d.body THEN d ELSE [d EXCEPT !.body = b, !.hist = Append(@, b)]
Has(sg, v) == v \in DOMAIN sg /\ sg[v].body.tag # "Absent"

\* Outcomes.
NoErr == [kind |-> "NoErr"]
Ok(sg) == [st |-> "Ok", sigma |-> sg, err |-> NoErr]
Err(sg, e) == [st |-> "Err", sigma |-> sg, err |-> e]
Panic(sg) == [st |-> "Panic", sigma |-> sg, err |-> NoErr]
Diverge(sg) == [st |-> "Diverge", sigma |-> sg, err |-> NoErr]

\* Def::to_term for a definition whose telescope is empty: Term::lam over
\* an empty telescope is the body itself.
ToTerm(d, v) ==
    CASE d.body.tag = "Fun" -> [st |-> "Ok", t |-> d.body.t]
      [] d.body.tag = "Postulate" -> [st |-> "Ok", t |-> Ref(v)]
      [] d.body.tag = "Alias" -> [st |-> "Ok", t |-> d.body.t]
      [] d.body.tag = "Undefined" -> [st |-> "Ok", t |-> Undef(v)]
      [] OTHER -> [st |-> "Panic", t |-> Univ]

-----------------------------------------------------------------------------
(* The unifier (theory::abs::unify::Unifier).  Each operator takes Sigma   *)
(* and returns an outcome holding the Sigma the call leaves behind; n is   *)
(* the number of unfoldings still allowed.                                 *)

NonUnifiable(l, r) == [kind |-> "NonUnifiable", lhs |-> l, rhs |-> r]
NonRowSat(s, b) == [kind |-> "NonRowSat", lhs |-> s, rhs |-> b]

\* The atoms unify_impl accepts by tag equality.
UnifyAtoms == {"Univ", "Unit", "TT", "Boolean", "False", "True", "String",
               "Number", "BigInt", "Row"}

\* Tele::find(|p| p.var == r): the index of the parameter r, or 0.
TeleFind(tele, r) ==
    IF \E i \in DOMAIN tele : tele[i].var = r
    THEN CHOOSE i \in DOMAIN tele :
            tele[i].var = r /\ \A j \in DOMAIN tele : tele[j].var = r => i <= j
    ELSE 0

RECURSIVE Unify(_, _, _, _), Solve(_, _, _, _), UnifyFieldsEq(_, _, _, _, _),
          UnifyFieldsOrd(_, _, _, _, _)

\* Unifier::solve
Solve(sg, v, tm, n) ==
    IF ~Has(sg, v) \/ sg[v].body.tag # "Meta" THEN Panic(sg)
    ELSE IF sg[v].body.s.tag = "Some" THEN Ok(sg)
    ELSE IF tm.tag # "Ref"
    THEN Ok([sg EXCEPT ![v] = SetBody(@, MetaBody(Some(tm)))])
    ELSE IF TeleFind(sg[v].tele, tm.v) = 0
    THEN Panic([sg EXCEPT ![v] = SetBody(@, MetaBody(Some(tm)))])
    ELSE Unify([sg EXCEPT ![v] = SetBody(@, MetaBody(Some(tm)))],
               sg[v].ret, sg[v].tele[TeleFind(sg[v].tele, tm.v)].typ, n)

\* `self.unify(..)?; self.unify(l, r)`: after the call that returned first,
\* the next pair is unified, unless first is an error.
UnifyNext(first, l, r, n) ==
    IF first.st # "Ok" THEN first ELSE Unify(first.sigma, l, r, n)

\* The loops of unify_fields_eq and unify_fields_ord over the labels ls;
\* first is what unify returned for the field Head(ls).
UnifyFieldsEqNext(first, a, b, ls, n) ==
    IF first.st # "Ok" THEN first ELSE UnifyFieldsEq(first.sigma, a, b, Tail(ls), n)

UnifyFieldsEq(sg, a, b, ls, n) ==
    IF ls = <<>> THEN Ok(sg)
    ELSE IF Head(ls) \in DOMAIN b
         THEN UnifyFieldsEqNext(Unify(sg, a[Head(ls)], b[Head(ls)], n), a, b, ls, n)
         ELSE Err(sg, NonUnifiable(Fields(a), Fields(b)))

UnifyFieldsOrdNext(first, small, big, ls, n) ==
    IF first.st # "Ok" THEN first
    ELSE UnifyFieldsOrd(first.sigma, small, big, Tail(ls), n)

UnifyFieldsOrd(sg, small, big, ls, n) ==
    IF ls = <<>> THEN Ok(sg)
    ELSE IF Head(ls) \in DOMAIN big
         THEN UnifyFieldsOrdNext(Unify(sg, small[Head(ls)], big[Head(ls)], n),
                                 small, big, ls, n)
         ELSE Err(sg, NonRowSat(Fields(small), Fields(big)))

\* unify_fields_ord(small, big)
unify_fields_ord(sg, small, big, n) ==
    UnifyFieldsOrd(sg, small, big, FieldLabels(small), n)

\* unify_fields_eq(a, b)
unify_fields_eq(sg, a, b, n) ==
    IF Cardinality(DOMAIN a) # Cardinality(DOMAIN b)
    THEN Err(sg, NonUnifiable(Fields(a), Fields(b)))
    ELSE UnifyFieldsEq(sg, a, b, FieldLabels(a), n)

\* unify_impl, arm by arm in the order of the match.
Unify(sg, l, r, n) ==
    IF n = 0 THEN Diverge(sg)
    ELSE IF l.tag = "MetaRef" THEN Solve(sg, l.v, r, n - 1)
    ELSE IF r.tag = "MetaRef" THEN Solve(sg, r.v, l, n - 1)
    ELSE IF l.tag = "Ref" /\ r.tag = "Ref" /\ l.v = r.v THEN Ok(sg)
    ELSE IF l.tag = "Ref"
         THEN IF ~Has(sg, l.v) THEN Err(sg, NonUnifiable(l, r))
              ELSE IF ToTerm(sg[l.v], l.v).st = "Panic" THEN Panic(sg)
              ELSE Unify(sg, ToTerm(sg[l.v], l.v).t, r, n - 1)
    ELSE IF r.tag = "Ref"
         THEN IF ~Has(sg, r.v) THEN Err(sg, NonUnifiable(l, r))
              ELSE IF ToTerm(sg[r.v], r.v).st = "Panic" THEN Panic(sg)
              ELSE Unify(sg, l, ToTerm(sg[r.v], r.v).t, n - 1)
    ELSE IF l.tag = "Tuple" /\ r.tag = "Tuple"
         THEN UnifyNext(Unify(sg, l.a, r.a, n - 1), l.b, r.b, n - 1)
    ELSE IF l.tag = "If" /\ r.tag = "If"
         THEN UnifyNext(UnifyNext(Unify(sg, l.p, r.p, n - 1), l.t, r.t, n - 1),
                        l.e, r.e, n - 1)
    ELSE IF l.tag = "Fields" /\ r.tag = "Fields"
         THEN unify_fields_eq(sg, l.f, r.f, n - 1)
    ELSE IF l.tag \in {"Object", "Obj", "Enum", "Variant"} /\ r.tag = l.tag
         THEN Unify(sg, l.r, r.r, n - 1)
    ELSE IF l.tag = "Str" /\ r.tag = "Str" /\ l.s = r.s THEN Ok(sg)
    ELSE IF l.tag = "Num" /\ r.tag = "Num" /\ l.n = r.n THEN Ok(sg)
    ELSE IF l.tag \in UnifyAtoms /\ r.tag = l.tag THEN Ok(sg)
    ELSE Err(sg, NonUnifiable(l, r))

-----------------------------------------------------------------------------
(* The normalizer (theory::abs::normalize::Normalizer).  An outcome holds  *)
(* the Sigma and the rho the call leaves behind and the normal form t.     *)

UnresolvedImplementation(x) == [kind |-> "UnresolvedImplementation", lhs |-> x, rhs |-> x]

EmptyRho == [v \in {} |-> Univ]
RhoInsert(rho, v, t) == [w \in DOMAIN rho \cup {v} |-> IF w = v THEN t ELSE rho[w]]

NOk(sg, rho, t) == [st |-> "Ok", sigma |-> sg, err |-> NoErr, rho |-> rho, t |-> t]
\* The outcome r of a callee that did not return Ok, passed on by `?`.
NFail(r, rho) == [st |-> r.st, sigma |-> r.sigma, err |-> r.err, rho |-> rho, t |-> Univ]

\* auto_implicit with no witness for an interface constraint.
auto_implicit_rows(tm) ==
    CASE tm.tag = "RowEq" -> Some(RowRefl)
      [] tm.tag = "RowOrd" -> Some(RowSat)
      [] OTHER -> None

\* Normalizer::auto_implicit
auto_implicit(tm) ==
    CASE tm.tag = "RowEq" -> Some(RowRefl)
      [] tm.tag = "RowOrd" -> Some(RowSat)
      [] tm.tag = "ImplementsOf" -> Some(ImplementsSat)
      [] OTHER -> None

RECURSIVE CheckConstraintLoop(_, _, _, _)

\* `match Unifier::new(..).unify(&y, x)` in the loop of check_constraint:
\* Ok returns, an error goes on to the next implementation.
CheckConstraintNext(r, x, ims, n) ==
    IF r.st = "Err" THEN CheckConstraintLoop(r.sigma, x, Tail(ims), n) ELSE r

\* The loop of Normalizer::check_constraint over the implementations ims.
CheckConstraintLoop(sg, x, ims, n) ==
    IF ims = <<>> THEN Err(sg, UnresolvedImplementation(x))
    ELSE IF ~Has(sg, Head(ims)) \/ sg[Head(ims)].body.tag # "Implements"
            \/ ~Has(sg, sg[Head(ims)].body.ty)
    THEN Panic(sg)
    ELSE IF ToTerm(sg[sg[Head(ims)].body.ty], sg[Head(ims)].body.ty).st = "Panic"
    THEN Panic(sg)
    ELSE CheckConstraintNext(
             Unify(sg, ToTerm(sg[sg[Head(ims)].body.ty], sg[Head(ims)].body.ty).t, x, n),
             x, ims, n)

\* Normalizer::check_constraint
check_constraint(sg, x, i, n) ==
    IF ~Has(sg, i) \/ sg[i].body.tag # "Interface" THEN Panic(sg)
    ELSE CheckConstraintLoop(sg, x, sg[i].body.ims, n)

\* ImplementsBody.fns: the map from interface function to implementation
\* function, as a sequence of entries [i_fn, im_fn]; contains_key and get.
FnsHas(fns, f) == \E k \in DOMAIN fns : fns[k].i_fn = f
FnsGet(fns, f) == fns[CHOOSE k \in DOMAIN fns : fns[k].i_fn = f].im_fn

RECURSIVE FindImplLoop(_, _, _, _, _)

\* `if let Err(_) = Unifier::new(..).unify(&ty, &im_ty)` in the loop of
\* find_implementation: an error goes on to the next implementation, Ok
\* returns the term of the implementation's function im_fn.
FindImplNext(u, ty, ims, f, n) ==
    IF u.st = "Err" THEN FindImplLoop(u.sigma, ty, SubSeq(ims, 1, Len(ims) - 1), f, n)
    ELSE IF u.st # "Ok" THEN [st |-> u.st, sigma |-> u.sigma, err |-> u.err, t |-> Univ]
    ELSE IF ~Has(u.sigma, FnsGet(u.sigma[ims[Len(ims)]].body.fns, f))
            \/ ToTerm(u.sigma[FnsGet(u.sigma[ims[Len(ims)]].body.fns, f)],
                      FnsGet(u.sigma[ims[Len(ims)]].body.fns, f)).st # "Ok"
    THEN [st |-> "Panic", sigma |-> u.sigma, err |-> NoErr, t |-> Univ]
    ELSE [st |-> "Ok", sigma |-> u.sigma, err |-> NoErr,
          t |-> ToTerm(u.sigma[FnsGet(u.sigma[ims[Len(ims)]].body.fns, f)],
                       FnsGet(u.sigma[ims[Len(ims)]].body.fns, f)).t]

\* The loop of Normalizer::find_implementation over `ims.into_iter().rev()`:
\* ims holds the implementations not tried yet, the last one is tried next.
FindImplLoop(sg, ty, ims, f, n) ==
    IF ims = <<>>
    THEN [st |-> "Err", sigma |-> sg, err |-> UnresolvedImplementation(ty), t |-> Univ]
    ELSE IF ~Has(sg, ims[Len(ims)]) \/ sg[ims[Len(ims)]].body.tag # "Implements"
    THEN [st |-> "Panic", sigma |-> sg, err |-> NoErr, t |-> Univ]
    ELSE IF ~Has(sg, sg[ims[Len(ims)]].body.ty)
            \/ ToTerm(sg[sg[ims[Len(ims)]].body.ty], sg[ims[Len(ims)]].body.ty).st # "Ok"
            \/ ~FnsHas(sg[ims[Len(ims)]].body.fns, f)
    THEN [st |-> "Panic", sigma |-> sg, err |-> NoErr, t |-> Univ]
    ELSE FindImplNext(
             Unify(sg, ty,
                   ToTerm(sg[sg[ims[Len(ims)]].body.ty], sg[ims[Len(ims)]].body.ty).t, n),
             ty, ims, f, n)

\* Normalizer::find_implementation
find_implementation(sg, ty, i, f, n) ==
    IF ~Has(sg, i) \/ sg[i].body.tag # "Interface"
    THEN [st |-> "Panic", sigma |-> sg, err |-> NoErr, t |-> Univ]
    ELSE FindImplLoop(sg, ty, sg[i].body.ims, f, n)

\* The Find arm after find_implementation returned r.
NormFound(r, rho) ==
    IF r.st # "Ok" THEN NFail(r, rho) ELSE NOk(r.sigma, rho, r.t)

RECURSIVE Norm(_, _, _, _), NormFields(_, _, _, _, _, _), NormMetaRef(_, _, _, _)

\* The write-back `self.sigma.insert(x, def)` that ends the MetaRef arm:
\* def is the clone taken when the arm was entered, with its ret replaced
\* by the normalized ret and, after an auto-solve, its body.
WriteBack(sg, x, def) ==
    [sg EXCEPT ![x] = [SetBody(@, def.body) EXCEPT !.tele = def.tele, !.ret = def.ret]]

\* The MetaRef arm of Normalizer::term, from its end to its start: the
\* solved meta whose solution was normalized (r2),
NormMetaRefSolved(tm, def, r2) ==
    IF r2.st # "Ok" THEN r2
    ELSE NOk(WriteBack(r2.sigma, tm.v, def), r2.rho, r2.t)

\* the unsolved meta and what auto_implicit makes of its type (a),
NormMetaRefUnsolved(tm, def, r, a) ==
    IF a.tag = "None"
    THEN NOk(WriteBack(r.sigma, tm.v, def), r.rho, tm)
    ELSE NOk(WriteBack(r.sigma, tm.v, [def EXCEPT !.body = MetaBody(Some(a.t))]),
             r.rho, a.t)

\* the match on the body of the clone def after its ret was normalized (r),
NormMetaRefBody(tm, def, r, n) ==
    IF def.body.tag # "Meta" THEN NFail(Panic(r.sigma), r.rho)
    ELSE IF def.body.s.tag = "Some"
    THEN NormMetaRefSolved(tm, def,
                           Norm(r.sigma, r.rho,
                                AppSpine(Rename(LamTele(def.tele, 1, def.body.s.t)),
                                         tm.sp, Len(tm.sp)),
                                n))
    ELSE NormMetaRefUnsolved(tm, def, r, auto_implicit(def.ret))

\* and the clone def0 of the entry with its ret normalized (r).
NormMetaRefRet(tm, def0, r, n) ==
    IF r.st # "Ok" THEN r
    ELSE NormMetaRefBody(tm, [def0 EXCEPT !.ret = r.t], r, n)

NormMetaRef(sg, rho, tm, n) ==
    IF ~Has(sg, tm.v) THEN NFail(Panic(sg), rho)
    ELSE NormMetaRefRet(tm, sg[tm.v], Norm(sg, rho, sg[tm.v].ret, n), n)

\* The Fields arm: the values of f at the labels ls, normalized in turn
\* into nf; r is the normalized field Head(ls).
NormFieldsNext(r, f, ls, nf, n) ==
    IF r.st # "Ok" THEN r
    ELSE NormFields(r.sigma, r.rho, f, Tail(ls), FieldInsert(nf, Head(ls), r.t), n)

NormFields(sg, rho, f, ls, nf, n) ==
    IF ls = <<>> THEN NOk(sg, rho, Fields(nf))
    ELSE NormFieldsNext(Norm(sg, rho, f[Head(ls)], n), f, ls, nf, n)

\* The arms for Pi, Lam, Tuple, App, Combine, RowOrd and RowEq normalize two
\* operands in turn (a, then b) and build the term: App enters the body of
\* a Lam unless the argument is a meta, Combine merges two known rows, and
\* RowOrd and RowEq unify the two rows when both are known (u is what the
\* unifier returned).
NormRowChecked(u, rho, out) ==
    IF u.st # "Ok" THEN NFail(u, rho) ELSE NOk(u.sigma, rho, out)

NormBuilt(tm, a, b, n) ==
    IF b.st # "Ok" THEN b
    ELSE IF tm.tag = "Pi"
    THEN NOk(b.sigma, b.rho, TermPi(TermParam(tm.p.var, a.t), b.t))
    ELSE IF tm.tag = "Lam"
    THEN NOk(b.sigma, b.rho, TermLam(TermParam(tm.p.var, a.t), b.t))
    ELSE IF tm.tag = "Tuple"
    THEN NOk(b.sigma, b.rho, Tuple(a.t, b.t))
    ELSE IF tm.tag = "App"
    THEN IF b.t.tag = "MetaRef" THEN NOk(b.sigma, b.rho, TermApp(a.t, b.t))
         ELSE IF a.t.tag = "Lam"
         THEN Norm(b.sigma, RhoInsert(b.rho, a.t.p.var, b.t), a.t.b, n)
         ELSE NOk(b.sigma, b.rho, TermApp(a.t, b.t))
    ELSE IF tm.tag = "Combine"
    THEN IF a.t.tag = "Fields" /\ b.t.tag = "Fields"
         THEN NOk(b.sigma, b.rho, Fields(FieldsMerge(a.t.f, b.t.f)))
         ELSE NOk(b.sigma, b.rho, Combine(a.t, b.t))
    ELSE IF a.t.tag = "Fields" /\ b.t.tag = "Fields"
    THEN NormRowChecked(IF tm.tag = "RowEq"
                        THEN unify_fields_eq(b.sigma, a.t.f, b.t.f, n)
                        ELSE IF tm.d = "Le"
                        THEN unify_fields_ord(b.sigma, a.t.f, b.t.f, n)
                        ELSE unify_fields_ord(b.sigma, b.t.f, a.t.f, n),
                        b.rho, [tm EXCEPT !.a = a.t, !.b = b.t])
    ELSE NOk(b.sigma, b.rho, [tm EXCEPT !.a = a.t, !.b = b.t])

NormSecond(tm, a, n) ==
    IF a.st # "Ok" THEN a
    ELSE NormBuilt(tm, a, Norm(a.sigma, a.rho, IF tm.tag = "App" THEN tm.x ELSE tm.b, n), n)

\* The Let and TupleLet arms after the bound term was normalized (a): a
\* meta blocks the binding, and so does a bound term that is not a pair.
NormLetBound(tm, a, n) ==
    IF a.st # "Ok" THEN a
    ELSE IF a.t.tag = "MetaRef" THEN NOk(a.sigma, a.rho, [tm EXCEPT !.a = a.t])
    ELSE IF tm.tag = "Let"
    THEN Norm(a.sigma, RhoInsert(a.rho, tm.p.var, a.t), tm.b, n)
    ELSE IF a.t.tag = "Tuple"
    THEN Norm(a.sigma, RhoInsert(RhoInsert(a.rho, tm.p.var, a.t.a), tm.q.var, a.t.b),
              tm.b, n)
    ELSE NOk(a.sigma, a.rho, [tm EXCEPT !.a = a.t])

\* The If arm after the condition was normalized (p).
NormIfBranch(tm, p, n) ==
    IF p.st # "Ok" THEN p
    ELSE IF p.t.tag = "True" THEN Norm(p.sigma, p.rho, tm.t, n)
    ELSE IF p.t.tag = "False" THEN Norm(p.sigma, p.rho, tm.e, n)
    ELSE NOk(p.sigma, p.rho, If(p.t, tm.t, tm.e))

\* The arms for Object, Obj, Enum and Variant after the row was normalized.
NormInner(tm, r) ==
    IF r.st # "Ok" THEN r ELSE NOk(r.sigma, r.rho, [tm EXCEPT !.r = r.t])

\* The Switch arm after the scrutinee was normalized (a): on a variant
\* with the label Head(ls), `cs.get(&n).unwrap()` is the case taken.
NormSwitchCase(tm, a, ls, n) ==
    IF ls = <<>> \/ Head(ls) \notin DOMAIN tm.cs
    THEN NFail(Panic(a.sigma), a.rho)
    ELSE Norm(a.sigma, RhoInsert(a.rho, tm.cs[Head(ls)].v, a.t.r.f[Head(ls)]),
              tm.cs[Head(ls)].tm, n)

NormSwitchScrutinee(tm, a, n) ==
    IF a.st # "Ok" THEN a
    ELSE IF a.t.tag = "Variant" /\ a.t.r.tag = "Fields"
    THEN NormSwitchCase(tm, a, FieldLabels(a.t.r.f), n)
    ELSE IF a.t.tag = "Variant"
    THEN NOk(a.sigma, a.rho, Switch(a.t.r, tm.cs))
    ELSE NOk(a.sigma, a.rho, Switch(a.t, tm.cs))

\* The ImplementsOf arm after check_constraint returned c.
NormImplementsChecked(c, rho, tm) ==
    IF c.st # "Ok" THEN NFail(c, rho) ELSE NOk(c.sigma, rho, tm)

\* Normalizer::term, arm by arm.
Norm(sg, rho, tm, n) ==
    IF n = 0 THEN NFail(Diverge(sg), rho)
    ELSE CASE tm.tag = "Ref" ->
                IF tm.v \in DOMAIN rho THEN Norm(sg, rho, rho[tm.v], n - 1)
                ELSE NOk(sg, rho, tm)
      [] tm.tag = "MetaRef" -> NormMetaRef(sg, rho, tm, n - 1)
      [] tm.tag = "Undef" ->
                IF ~Has(sg, tm.v) \/ ToTerm(sg[tm.v], tm.v).st = "Panic"
                THEN NFail(Panic(sg), rho)
                ELSE NOk(sg, rho, ToTerm(sg[tm.v], tm.v).t)
      [] tm.tag \in {"Pi", "Lam", "Tuple", "App", "Combine", "RowOrd", "RowEq"} ->
                NormSecond(tm, Norm(sg, rho,
                                    IF tm.tag \in {"Pi", "Lam"} THEN tm.p.typ
                                    ELSE IF tm.tag = "App" THEN tm.f ELSE tm.a,
                                    n - 1),
                           n - 1)
      [] tm.tag \in {"Let", "TupleLet"} ->
                NormLetBound(tm, Norm(sg, rho, tm.a, n - 1), n - 1)
      [] tm.tag = "If" -> NormIfBranch(tm, Norm(sg, rho, tm.p, n - 1), n - 1)
      [] tm.tag = "Fields" ->
                NormFields(sg, rho, tm.f, FieldLabels(tm.f), [l \in {} |-> Univ], n - 1)
      [] tm.tag \in {"Object", "Obj", "Enum", "Variant"} ->
                NormInner(tm, Norm(sg, rho, tm.r, n - 1))
      [] tm.tag = "Switch" -> NormSwitchScrutinee(tm, Norm(sg, rho, tm.a, n - 1), n - 1)
      [] tm.tag = "ImplementsOf" ->
                IF tm.a.tag = "Ref" THEN NOk(sg, rho, tm)
                ELSE NormImplementsChecked(check_constraint(sg, tm.a, tm.i, n - 1),
                                           rho, tm)
      [] tm.tag = "Find" ->
                IF tm.ty.tag = "Ref" THEN NOk(sg, rho, tm)
                ELSE NormFound(find_implementation(sg, tm.ty, tm.i, tm.f, n - 1), rho)
      [] OTHER -> NOk(sg, rho, tm)

\* Normalizer::new(sigma, loc).term(tm)
Normalize(sg, tm) == Norm(sg, EmptyRho, tm, MaxUnfold)
\* Normalizer::new(sigma, loc).with(&[(v, x)], tm)
NormalizeWith(sg, v, x, tm) == Norm(sg, RhoInsert(EmptyRho, v, x), tm, MaxUnfold)
\* Unifier::new(sigma, loc).unify(lhs, rhs)
unify(sg, l, r) == Unify(sg, l, r, MaxUnfold)

-----------------------------------------------------------------------------
(* Sigma under the elaborator's holes and the calls of the unifier and the *)
(* normalizer.                                                             *)

\* VarGen::fresh: the k-th generated meta variable.
MetaNames == <<"?1", "?2", "?3", "?4", "?5", "?6", "?7", "?8">>
TyMeta(h) == MetaNames[2 * h - 1]
TmMeta(h) == MetaNames[2 * h]
MetaKeys == {MetaNames[k] : k \in DOMAIN MetaNames}
\* The keys of Sigma: the metas, the interface I with its method m, the
\* implementation im1, the alias T1 and the definition D1.
SigmaKeys == MetaKeys \cup {"I", "m", "im1", "im2", "T1", "T2", "f1", "f2", "D1", "D2"}

\* Sigma after the interface I, its method m (with the alias parameter T
\* standing for the implementor type), the aliases `type T1 = number` and
\* `type T2 = string` and the functions f1 and f2 were elaborated; I declares
\* the methods fns and has no implementation yet.
SigmaInit(fns) ==
    [k \in SigmaKeys |->
        CASE k = "I" -> Def(<<>>, Univ, Interface(fns, <<>>))
          [] k = "m" -> Def(<<TermParam("T", Univ)>>, Tuple(Ref("T"), String), Postulate)
          [] k = "T1" -> Def(<<>>, Univ, Alias(Number))
          [] k = "T2" -> Def(<<>>, Univ, Alias(String))
          [] k = "f1" -> Def(<<>>, Tuple(Number, String), Postulate)
          [] k = "f2" -> Def(<<>>, Tuple(String, String), Postulate)
          [] OTHER -> Absent]

TyMetas(n) == {TyMeta(h) : h \in 1..n}
TmMetas(n) == {TmMeta(h) : h \in 1..n}

\* The terms handed to unify and to the normalizer: base types, references
\* to the metas allocated so far, pairs, interface constraints and method
\* lookups.
TermU(n) ==
    {Number, String}
    \cup {MetaRef(m) : m \in TyMetas(n) \cup TmMetas(n)}
    \cup {ImplementsOf(MetaRef(m), "I") : m \in TmMetas(n)}
    \cup {Find(MetaRef(m), "I", "m") : m \in TmMetas(n)}
    \cup {ImplementsOf(Ref("T"), "I")}
    \cup {Tuple(MetaRef(m), MetaRef(m)) : m \in TmMetas(n)}
    \cup {Tuple(Number, String), Tuple(Number, Number)}

NoOp == [name |-> "none", a |-> Univ, b |-> Univ, st |-> "Ok", err |-> NoErr, t |-> Univ]

SigInit ==
    /\ \E fns \in {<<>>, <<"m">>} : sigma = SigmaInit(fns)
    /\ nholes = 0
    /\ op = NoOp

\* Elaborator::insert_meta under an empty Gamma.
InsertMeta ==
    /\ op.name = "none"
    /\ nholes < MaxHoles
    /\ nholes' = nholes + 1
    /\ sigma' = [sigma EXCEPT
            ![TyMeta(nholes + 1)] = Def(<<>>, Univ, MetaBody(None)),
            ![TmMeta(nholes + 1)] =
                Def(<<>>, MetaRef(TyMeta(nholes + 1)), MetaBody(None))]
    /\ op' = NoOp
    /\ UNCHANGED <<resVars, gamVars>>

\* The caller's state when unify(a, b) has returned r.
UnifyReturned(a, b, r) ==
    /\ sigma' = r.sigma
    /\ op' = [name |-> "unify", a |-> a, b |-> b, st |-> r.st, err |-> r.err,
              t |-> Univ]

\* Unifier::new(&mut sigma, loc).unify(a, b)
UnifyCall ==
    /\ op.name = "none"
    /\ \E a \in TermU(nholes), b \in TermU(nholes) :
          UnifyReturned(a, b, unify(sigma, a, b))
    /\ UNCHANGED <<nholes, resVars, gamVars>>

\* The caller's state when the normalizer has returned r for the term a.
NormalizeReturned(a, r) ==
    /\ sigma' = r.sigma
    /\ op' = [name |-> "normalize", a |-> a, b |-> Univ, st |-> r.st,
              err |-> r.err, t |-> r.t]

\* Normalizer::new(&mut sigma, loc).term(a)
NormalizeCall ==
    /\ op.name = "none"
    /\ \E a \in TermU(nholes) : NormalizeReturned(a, Normalize(sigma, a))
    /\ UNCHANGED <<nholes, resVars, gamVars>>

\* Rows over the labels A and B, a field being of type number or string,
\* and the row terms built of two of them.
FieldMaps == UNION {[ls -> {Number, String}] : ls \in SUBSET {"A", "B"}}
RowTerms ==
    {RowOrd(Fields(a), d, Fields(b)) : a \in FieldMaps, b \in FieldMaps, d \in {"Le", "Ge"}}
    \cup {RowEq(Fields(a), Fields(b)) : a \in FieldMaps, b \in FieldMaps}
    \cup {Combine(Fields(a), Fields(b)) : a \in FieldMaps, b \in FieldMaps}

\* Normalizer::new(&mut sigma, loc).term(a) on a row term.
NormalizeRows ==
    /\ op.name = "none"
    /\ \E a \in RowTerms : NormalizeReturned(a, Normalize(sigma, a))
    /\ UNCHANGED <<nholes, resVars, gamVars>>

TermTrue == Atom("True")
\* Sigma after `function D1(): number` was elaborated with the body b.
SigmaNorm(b) == [SigmaInit(<<"m">>) EXCEPT !["D1"] = Def(<<>>, Number, Fun(b))]
\* The bodies of D1: a literal, and the recursive `if (true) 1 else D1`,
\* whose reference to D1 was elaborated while the body of D1 was still
\* Undefined.
D1Bodies == {Num(1), If(TermTrue, Num(1), Undef("D1"))}

\* The terms handed to the normalizer: arguments x, bodies b over the
\* variable x, and around them a reference to D1, the metas, an If stuck on
\* a meta, Let, TupleLet and the application of a Lam.
NormArgs(n) == {Number, Tuple(Number, String)} \cup {MetaRef(m) : m \in TmMetas(n)}
LamBodies ==
    {Ref("x"), Tuple(Ref("x"), Number), If(Ref("x"), Number, String),
     ImplementsOf(Ref("x"), "I"), Undef("D1"),
     TermLet(TermParam("y", Univ), Ref("x"), Tuple(Ref("y"), Ref("y")))}
NormTerms(n) ==
    {Undef("D1")}
    \cup {MetaRef(m) : m \in TyMetas(n) \cup TmMetas(n)}
    \cup {If(MetaRef(m), Number, If(TermTrue, Number, String)) : m \in TmMetas(n)}
    \cup {TermLet(TermParam("x", Univ), a, b) : a \in NormArgs(n), b \in LamBodies}
    \cup {TermTupleLet(TermParam("x", Univ), TermParam("y", Univ), a,
                       Tuple(Ref("y"), Ref("x"))) : a \in NormArgs(n)}
    \cup {TermApp(TermLam(TermParam("x", Univ), b), a) :
             a \in NormArgs(n), b \in LamBodies}

SigNorm ==
    /\ \E b \in D1Bodies : sigma = SigmaNorm(b)
    /\ nholes = 0
    /\ op = NoOp

\* Unifier::new(&mut sigma, loc).unify(MetaRef(m), b): a hole meets a type,
\* a value or a constraint.
SolveMeta ==
    /\ op.name = "none"
    /\ \E m \in TyMetas(nholes) \cup TmMetas(nholes),
          b \in {Number, Num(1), ImplementsOf(Ref("T"), "I")} :
          UnifyReturned(MetaRef(m), b, unify(sigma, MetaRef(m), b))
    /\ UNCHANGED <<nholes, resVars, gamVars>>

\* Normalizer::new(&mut sigma, loc).term(a)
NormalizeTerm ==
    /\ op.name = "none"
    /\ \E a \in NormTerms(nholes) : NormalizeReturned(a, Normalize(sigma, a))
    /\ UNCHANGED <<nholes, resVars, gamVars>>

\* The caller's state when a fresh normalizer has returned r for the
\* normal form op.t of the term op.a.
RenormalizeReturned(r) ==
    /\ sigma' = r.sigma
    /\ op' = [name |-> "renormalize", a |-> op.t, b |-> op.a, st |-> r.st,
              err |-> r.err, t |-> r.t]

\* Normalizer::new(&mut sigma, loc).term(t) on the term t a normalizer
\* returned.
Renormalize ==
    /\ op.name = "normalize"
    /\ op.st = "Ok"
    /\ RenormalizeReturned(Normalize(sigma, op.t))
    /\ UNCHANGED <<nholes, resVars, gamVars>>

\* The call returned Ok and the caller goes on; an error ends elaboration.
Return ==
    /\ op.name # "none"
    /\ op.st = "Ok"
    /\ op' = NoOp
    /\ UNCHANGED <<sigma, nholes, resVars, gamVars>>

NonExhaustive(t) == [kind |-> "NonExhaustive", t |-> t]
ExpectedInterface(t) == [kind |-> "ExpectedInterface", t |-> t]

\* Def::to_type: the Pi of the telescope over the return type.
RECURSIVE PiFrom(_, _, _)
PiFrom(tele, k, ret) ==
    IF k > Len(tele) THEN ret ELSE TermPi(tele[k], PiFrom(tele, k + 1, ret))
ToType(d) == PiFrom(d.tele, 1, d.ret)

RECURSIVE ImplementsFnsLoop(_, _, _, _)

\* The loop over ret.fns, from its end to its start: after the unifier
\* returned u for entry k,
ImplementsFnNext(u, im_tm, fns, k) ==
    IF u.st # "Ok" THEN u ELSE ImplementsFnsLoop(u.sigma, im_tm, fns, k + 1)

\* after the interface function's type was applied to the implementor type
\* (a); the type of the implementation function is inferred (a Resolved
\* that is not in Gamma: d.to_type()) and unified with it,
ImplementsFnApplied(a, im_tm, fns, k) ==
    IF a.st # "Ok" THEN [st |-> a.st, sigma |-> a.sigma, err |-> a.err]
    ELSE IF ~Has(a.sigma, fns[k].im_fn) THEN Panic(a.sigma)
    ELSE ImplementsFnNext(unify(a.sigma, a.t, ToType(a.sigma[fns[k].im_fn])),
                          im_tm, fns, k)

\* and the loop: the interface function's type must be a Pi over the alias.
ImplementsFnsLoop(sg, im_tm, fns, k) ==
    IF k > Len(fns) THEN Ok(sg)
    ELSE IF ~Has(sg, fns[k].i_fn) THEN Panic(sg)
    ELSE IF ToType(sg[fns[k].i_fn]).tag # "Pi" THEN Panic(sg)
    ELSE ImplementsFnApplied(
             NormalizeWith(sg, ToType(sg[fns[k].i_fn]).p.var, im_tm,
                           ToType(sg[fns[k].i_fn]).b),
             im_tm, fns, k)

\* check_implements_body after the implementor was inferred and its type
\* im_tm taken: d is pushed on the interface's ims, then every function of
\* the interface must have an entry in fns.
ImplementsChecked(sg, d, i, im_tm, fns) ==
    IF ~Has(sg, i) THEN Panic(sg)
    ELSE IF sg[i].body.tag # "Interface" THEN Err(sg, ExpectedInterface(Ref(i)))
    ELSE IF \E k \in DOMAIN sg[i].body.fns : ~FnsHas(fns, sg[i].body.fns[k])
    THEN Err([sg EXCEPT ![i] = SetBody(@, Interface(@.body.fns, Append(@.body.ims, d)))],
             NonExhaustive(im_tm))
    ELSE ImplementsFnsLoop(
             [sg EXCEPT ![i] = SetBody(@, Interface(@.body.fns, Append(@.body.ims, d)))],
             im_tm, fns, 1)

\* check_implements_body without the loop that unifies the function types.
check_implements_body_untyped(sg, d, i, im, fns) ==
    IF ~Has(sg, im) THEN Panic(sg)
    ELSE IF ToTerm(sg[im], im).st # "Ok" THEN Panic(sg)
    ELSE ImplementsChecked(sg, d, i, ToTerm(sg[im], im).t, <<>>)

\* Elaborator::check_implements_body(d, body) for body.i = (i, im) and
\* body.fns = fns; the implementor im is a Resolved definition.
check_implements_body(sg, d, i, im, fns) ==
    IF ~Has(sg, im) THEN Panic(sg)
    ELSE IF ToTerm(sg[im], im).st # "Ok" THEN Panic(sg)
    ELSE ImplementsChecked(sg, d, i, ToTerm(sg[im], im).t, fns)

\* The maps an implementation of I may hold: none, m |-> f1, m |-> f2.
ImplFns == {<<>>, <<[i_fn |-> "m", im_fn |-> "f1"]>>, <<[i_fn |-> "m", im_fn |-> "f2"]>>}
\* The caller's state when check_implements_body has returned r inside
\* Elaborator::def: on Ok the checked body replaces Undefined.
ImplementsReturned(d, i, im, fns, r) ==
    /\ sigma' = IF r.st = "Ok"
                 THEN [r.sigma EXCEPT ![d] = SetBody(@, Implements(i, im, fns))]
                 ELSE r.sigma
    /\ op' = [name |-> "def", a |-> Implements(i, im, fns), b |-> Ref(d),
              st |-> r.st, err |-> r.err, t |-> Univ]

\* Elaborator::def for `implements i for T { fns }` (the definition d,
\* the implementor T being the alias im): the
\* entry is inserted with an Undefined body, the body is checked, and the
\* checked body replaces Undefined.
ElabImplements ==
    /\ op.name = "none"
    /\ \E d \in {"im1", "im2"}, i \in {"I", "T1"}, im \in {"T1", "T2"}, fns \in ImplFns :
          /\ ~Has(sigma, d)
          /\ ImplementsReturned(d, i, im, fns,
                 check_implements_body([sigma EXCEPT ![d] = Def(<<>>, Univ, Undefined)],
                                       d, i, im, fns))
    /\ UNCHANGED <<nholes, resVars, gamVars>>

-----------------------------------------------------------------------------
(* The concrete syntax (conc::data::Expr) and the resolver.  A Var is its  *)
(* identity (id) together with its display name; the resolver's map is     *)
(* keyed by display name only.  A Loc is the position of a node.           *)

Var(id, name) == [id |-> id, name |-> name]
NoVar == Var(0, "")
RawNames == {"f", "g", "x", "y"}

NoExpr == [tag |-> "NoExpr"]
Unresolved(loc, name) == [tag |-> "Unresolved", loc |-> loc, name |-> name]
Resolved(loc, v) == [tag |-> "Resolved", loc |-> loc, v |-> v]
Param(v, typ) == [var |-> v, typ |-> typ]
Let(loc, x, typ, a, b) == [tag |-> "Let", loc |-> loc, x |-> x, typ |-> typ, a |-> a, b |-> b]
Pi(loc, p, b) == [tag |-> "Pi", loc |-> loc, p |-> p, b |-> b]
Lam(loc, x, b) == [tag |-> "Lam", loc |-> loc, x |-> x, b |-> b]
Sigma(loc, p, b) == [tag |-> "Sigma", loc |-> loc, p |-> p, b |-> b]
TupleLet(loc, x, y, a, b) == [tag |-> "TupleLet", loc |-> loc, x |-> x, y |-> y, a |-> a, b |-> b]
ExprTuple(loc, a, b) == [tag |-> "Tuple", loc |-> loc, a |-> a, b |-> b]
ExprIf(loc, p, t, e) == [tag |-> "If", loc |-> loc, p |-> p, t |-> t, e |-> e]
\* fields is a Vec<(String, Expr)>: a sequence of [n, e], labels may repeat.
ExprFields(loc, fields) == [tag |-> "Fields", loc |-> loc, fields |-> fields]
ExprObj(loc, r) == [tag |-> "Obj", loc |-> loc, r |-> r]
Concat(loc, a, b) == [tag |-> "Concat", loc |-> loc, a |-> a, b |-> b]
Downcast(loc, a) == [tag |-> "Downcast", loc |-> loc, a |-> a]
ExprEnum(loc, r) == [tag |-> "Enum", loc |-> loc, r |-> r]
ExprVariant(loc, n, a) == [tag |-> "Variant", loc |-> loc, n |-> n, a |-> a]
\* cs is a Vec<(String, Var, Expr)>: a sequence of [n, v, e].
ExprSwitch(loc, a, cs) == [tag |-> "Switch", loc |-> loc, a |-> a, cs |-> cs]
Hole(loc) == [tag |-> "Hole", loc |-> loc]
ExprNum(loc) == [tag |-> "Num", loc |-> loc]
ExprNumber(loc) == [tag |-> "Number", loc |-> loc]

\* Def<Expr>: body is Fun(e) or Postulate.
ExprDef(name, tele, ret, body) == [name |-> name, tele |-> tele, ret |-> ret, body |-> body]
NoDef == ExprDef(NoVar, <<>>, NoExpr, Postulate)

UnresolvedVar(loc) == [kind |-> "UnresolvedVar", loc |-> loc]
DuplicateField(f, loc) == [kind |-> "DuplicateField", f |-> f, loc |-> loc]

\* Outcome of a resolver function: the name map it leaves, and its result.
ROk(mp, e) == [st |-> "Ok", map |-> mp, e |-> e, err |-> NoErr]
RErr(mp, err) == [st |-> "Err", map |-> mp, e |-> NoExpr, err |-> err]

EmptyNames == [n \in RawNames |-> NoVar]
\* self.0.insert(v.to_string(), v)
MapInsert(mp, v) == [mp EXCEPT ![v.name] = v]
\* self.0.remove(name)
MapRemove(mp, n) == [mp EXCEPT ![n] = NoVar]

RECURSIVE InsertAll(_, _, _)
\* The map after the first i of vars were inserted, in order.
InsertAll(mp, vs, i) ==
    IF i = 0 THEN mp ELSE MapInsert(InsertAll(mp, vs, i - 1), vs[i])

\* olds[i]: what insert returned for vars[i] (NoVar for None).
Olds(mp, vs) == [i \in 1..Len(vs) |-> InsertAll(mp, vs, i - 1)[vs[i].name]]

RECURSIVE RestoreFrom(_, _, _, _)
\* The restoring loop of bodied, from index i on: `for i in 0..vars.len()`.
RestoreFrom(mp, vs, olds, i) ==
    IF i > Len(vs) THEN mp
    ELSE RestoreFrom(IF olds[i] # NoVar THEN MapInsert(mp, olds[i])
                     ELSE MapRemove(mp, vs[i].name),
                     vs, olds, i + 1)

\* The arms of Resolver::expr that traverse their node, and what each does:
\* the operands it resolves in the scope of the node, in this order,
Operands(e) ==
    CASE e.tag = "Let" -> IF e.typ = NoExpr THEN <<e.a>> ELSE <<e.typ, e.a>>
      [] e.tag \in {"Pi", "Sigma"} -> <<e.p.typ>>
      [] e.tag = "Lam" -> <<>>
      [] e.tag = "Tuple" -> <<e.a, e.b>>
      [] e.tag = "TupleLet" -> <<e.a>>
      [] e.tag = "If" -> <<e.p, e.t, e.e>>
\* the variables it hands to bodied, after the operands,
Binders(e) ==
    CASE e.tag = "Let" -> <<e.x>>
      [] e.tag \in {"Pi", "Sigma"} -> <<e.p.var>>
      [] e.tag = "Lam" -> <<e.x>>
      [] e.tag = "TupleLet" -> <<e.x, e.y>>
      [] OTHER -> <<>>
\* and the node it builds from the resolved operands os and body b.
Rebuild(e, os, b) ==
    CASE e.tag = "Let" ->
            IF e.typ = NoExpr THEN Let(e.loc, e.x, NoExpr, os[1], b)
            ELSE Let(e.loc, e.x, os[1], os[2], b)
      [] e.tag \in {"Pi", "Sigma"} -> [e EXCEPT !.p = Param(e.p.var, os[1]), !.b = b]
      [] e.tag = "Lam" -> Lam(e.loc, e.x, b)
      [] e.tag = "Tuple" -> ExprTuple(e.loc, os[1], os[2])
      [] e.tag = "TupleLet" -> TupleLet(e.loc, e.x, e.y, os[1], b)
      [] e.tag = "If" -> ExprIf(e.loc, os[1], os[2], os[3])

RECURSIVE resolver_expr(_, _)
RECURSIVE bodied(_, _, _)
RECURSIVE ResolveFields(_, _, _, _, _, _)
RECURSIVE ResolveOperands(_, _, _, _)

\* `self.expr(a)?` for each operand from index i on, left to right; the
\* first error is returned.  r is the resolved operand i.
ResolveOperandsNext(r, es, i, acc) ==
    IF r.st # "Ok" THEN r ELSE ResolveOperands(r.map, es, i + 1, Append(acc, r.e))

ResolveOperands(mp, es, i, acc) ==
    IF i > Len(es) THEN ROk(mp, acc)
    ELSE ResolveOperandsNext(resolver_expr(mp, es[i]), es, i, acc)

\* The end of bodied when `self.expr(e)?` has returned ret: an error
\* returns at once and restores nothing.
BodiedRestore(ret, vs, olds) ==
    IF ret.st # "Ok" THEN ret ELSE ROk(RestoreFrom(ret.map, vs, olds, 1), ret.e)

\* Resolver::bodied(vars, e): bind vars, resolve e, restore the old bindings.
bodied(mp, vs, e) ==
    BodiedRestore(resolver_expr(InsertAll(mp, vs, Len(vs)), e), vs, Olds(mp, vs))

\* The loop of the Fields arm of Resolver::expr from field i on; seen is
\* the RawNameSet of the labels met, resolved the fields resolved so far,
\* r the resolved field i.
ResolveFieldsNext(r, loc, fields, i, seen, resolved) ==
    IF r.st # "Ok" THEN r
    ELSE ResolveFields(r.map, loc, fields, i + 1, seen \cup {fields[i].n},
                       Append(resolved, [n |-> fields[i].n, e |-> r.e]))

ResolveFields(mp, loc, fields, i, seen, resolved) ==
    IF i > Len(fields) THEN ROk(mp, ExprFields(loc, resolved))
    ELSE IF fields[i].n \in seen THEN RErr(mp, DuplicateField(fields[i].n, loc))
    ELSE ResolveFieldsNext(resolver_expr(mp, fields[i].e), loc, fields, i, seen, resolved)

\* An arm that traverses its node, after its body (b) was resolved,
ResolveBuilt(e, os, b) ==
    IF b.st # "Ok" THEN b ELSE ROk(b.map, Rebuild(e, os.e, b.e))

\* and after its operands (os) were.
ResolveBody(e, os) ==
    IF os.st # "Ok" THEN os
    ELSE IF Binders(e) = <<>> THEN ROk(os.map, Rebuild(e, os.e, NoExpr))
    ELSE ResolveBuilt(e, os, bodied(os.map, Binders(e), e.b))

\* Resolver::expr.  Every constructor without an arm of its own (`e => e`)
\* is returned as it is, its operands not visited.
resolver_expr(mp, e) ==
    CASE e.tag = "Unresolved" ->
            IF mp[e.name] # NoVar THEN ROk(mp, Resolved(e.loc, mp[e.name]))
            ELSE RErr(mp, UnresolvedVar(e.loc))
      [] e.tag \in {"Let", "Pi", "Sigma", "Lam", "Tuple", "TupleLet", "If"} ->
            ResolveBody(e, ResolveOperands(mp, Operands(e), 1, <<>>))
      [] e.tag = "Fields" -> ResolveFields(mp, e.loc, e.fields, 1, {}, <<>>)
      [] OTHER -> ROk(mp, e)

\* Outcome of a resolver function on a definition.
DOk(mp, d) == [st |-> "Ok", map |-> mp, d |-> d, err |-> NoErr]
DErr(mp, err) == [st |-> "Err", map |-> mp, d |-> NoDef, err |-> err]

\* The end of Resolver::body when the body of a function was resolved (f).
ResolveBodyFun(d, ret, f) ==
    IF f.st # "Ok" THEN DErr(f.map, f.err)
    ELSE DOk(f.map, ExprDef(d.name, d.tele, ret.e, Fun(f.e)))

\* A resolver that binds the definition's own name only after the return
\* type was resolved (no recursion through the return type).
ResolveBodyRetLate(d, ret) ==
    IF ret.st # "Ok" THEN DErr(ret.map, ret.err)
    ELSE IF d.body.tag = "Fun"
    THEN ResolveBodyFun(d, ret, resolver_expr(MapInsert(ret.map, d.name), d.body.t))
    ELSE DOk(MapInsert(ret.map, d.name), ExprDef(d.name, d.tele, ret.e, Postulate))

resolver_body_late(mp, d) == ResolveBodyRetLate(d, resolver_expr(mp, d.ret))

\* Resolver::body after the return type was resolved (ret).
ResolveBodyRet(d, ret) ==
    IF ret.st # "Ok" THEN DErr(ret.map, ret.err)
    ELSE IF d.body.tag = "Fun"
    THEN ResolveBodyFun(d, ret, resolver_expr(ret.map, d.body.t))
    ELSE DOk(ret.map, ExprDef(d.name, d.tele, ret.e, Postulate))

\* Resolver::body: the definition's own name is bound first, then the
\* return type and the body are resolved.
resolver_body(mp, d) == ResolveBodyRet(d, resolver_expr(MapInsert(mp, d.name), d.ret))

RECURSIVE ResolveTele(_, _, _, _, _, _)

\* The telescope loop of Resolver::def when the type of parameter i was
\* resolved (r); old is what the insert of the parameter returned.
ResolveTeleNext(r, old, tele, i, acc, recoverable, removable) ==
    IF r.st # "Ok"
    THEN [st |-> "Err", map |-> r.map, tele |-> acc, err |-> r.err,
          recoverable |-> recoverable, removable |-> removable]
    ELSE ResolveTele(r.map, tele, i + 1, Append(acc, Param(tele[i].var, r.e)),
                     IF old # NoVar THEN Append(recoverable, old) ELSE recoverable,
                     IF old # NoVar THEN removable ELSE Append(removable, tele[i].var))

\* The telescope loop of Resolver::def from parameter i on.
ResolveTele(mp, tele, i, acc, recoverable, removable) ==
    IF i > Len(tele)
    THEN [st |-> "Ok", map |-> mp, tele |-> acc, err |-> NoErr,
          recoverable |-> recoverable, removable |-> removable]
    ELSE ResolveTeleNext(resolver_expr(MapInsert(mp, tele[i].var), tele[i].typ),
                         mp[tele[i].var.name], tele, i, acc, recoverable, removable)

RECURSIVE RemoveAll(_, _, _)
\* `for x in removable { self.0.remove(x.as_str()) }` up to index i
RemoveAll(mp, vs, i) ==
    IF i = 0 THEN mp ELSE MapRemove(RemoveAll(mp, vs, i - 1), vs[i].name)

\* The end of Resolver::def when `self.body(d)?` has returned b: the
\* parameters are removed or recovered.
ResolveDefEnd(t, b) ==
    IF b.st # "Ok" THEN b
    ELSE DOk(InsertAll(RemoveAll(b.map, t.removable, Len(t.removable)),
                       t.recoverable, Len(t.recoverable)),
             b.d)

\* Resolver::def after the telescope loop (t).
ResolveDefBody(d, t) ==
    IF t.st # "Ok" THEN DErr(t.map, t.err)
    ELSE ResolveDefEnd(t, resolver_body(t.map, [d EXCEPT !.tele = t.tele]))

\* Resolver::def
resolver_def(mp, d) == ResolveDefBody(d, ResolveTele(mp, d.tele, 1, <<>>, <<>>, <<>>))

-----------------------------------------------------------------------------
(* The definitions handed to the resolver.  Every node has its own Loc:    *)
(* parameter types 1 and 2, the return type 5, the body 6 and below.       *)

DefNames == {Var(1, "f"), Var(2, "g")}
X1 == Var(11, "x")
X2 == Var(12, "x")
Y1 == Var(13, "y")
F1 == Var(14, "f")
Y2 == Var(15, "y")

\* A number literal or a reference by name.
Leaf(l) == {ExprNum(l)} \cup {Unresolved(l, n) : n \in {"f", "x", "y"}}

\* Field lists of two fields; the second label may repeat the first.
FieldLists(l, es) ==
    {ExprFields(l, <<[n |-> "A", e |-> a], [n |-> m, e |-> ExprNum(l + 2)]>>) :
        a \in es, m \in {"A", "B"}}

BodyExprs ==
    Leaf(6)
    \cup {Let(6, x, NoExpr, a, b) : x \in {X1, Y1}, a \in Leaf(7), b \in Leaf(8)}
    \cup {Let(6, X1, NoExpr, ExprNum(7), Let(8, X2, NoExpr, ExprNum(9), b)) : b \in Leaf(10)}
    \cup {ExprTuple(6, Let(7, X1, NoExpr, ExprNum(8), ExprNum(9)), b) : b \in Leaf(10)}
    \cup {Lam(6, X1, b) : b \in Leaf(7)}
    \cup {Pi(6, Param(X1, t), b) : t \in Leaf(7), b \in Leaf(8)}
    \cup {Sigma(6, Param(X1, t), b) : t \in Leaf(7), b \in Leaf(8)}
    \cup {TupleLet(6, X1, q, a, b) : q \in {X2, Y1}, a \in Leaf(7), b \in Leaf(8)}
    \cup {ExprTuple(6, a, b) : a \in Leaf(7), b \in Leaf(8)}
    \cup {ExprIf(6, a, b, ExprNum(9)) : a \in Leaf(7), b \in Leaf(8)}
    \cup FieldLists(6, Leaf(7))
    \cup {ExprObj(6, r) : r \in FieldLists(6, Leaf(7))}
    \cup {ExprEnum(6, r) : r \in FieldLists(7, Leaf(8))}
    \cup {ExprVariant(6, "A", a) : a \in Leaf(7)}
    \cup {Concat(6, a, b) : a \in Leaf(7), b \in Leaf(8)}
    \cup {Downcast(6, a) : a \in Leaf(7)}

Teles ==
    {<<>>}
    \cup {<<Param(v, t)>> : v \in {X1, F1}, t \in Leaf(1)}
    \cup {<<Param(X1, t), Param(v, u)>> : v \in {X2, Y1}, t \in Leaf(1), u \in Leaf(2)}

DefInputs ==
    {ExprDef(n, tele, ret, b) :
        n \in DefNames, tele \in Teles, ret \in Leaf(5),
        b \in {Postulate, Fun(ExprNum(6)), Fun(Unresolved(6, "x")), Fun(Unresolved(6, "f"))}}
    \cup {ExprDef(n, tele, ret, Fun(b)) :
        n \in DefNames, tele \in {<<>>, <<Param(Y2, ExprNum(1))>>},
        ret \in {ExprNum(5), Unresolved(5, "f")}, b \in BodyExprs}

NoOut == [st |-> "None", d |-> NoDef, err |-> NoErr]

\* A fresh Resolver (Resolver::default()) about to resolve a file's
\* definitions one after the other.
ResInit ==
    /\ names = EmptyNames
    /\ rpc = "idle"
    /\ rEntry = EmptyNames
    /\ rDef = NoDef
    /\ rOut = NoOut

\* The driver's state when Resolver::def(d) has returned r.
ResolveReturned(d, r) ==
    /\ names' = r.map
    /\ rEntry' = names
    /\ rDef' = d
    /\ rOut' = [st |-> r.st, d |-> r.d, err |-> r.err]
    /\ rpc' = IF r.st = "Ok" THEN "done" ELSE "failed"

\* Resolver::def(d) for a definition that was not resolved before.
ResolveDef ==
    /\ rpc = "idle"
    /\ \E d \in DefInputs :
          /\ names[d.name.name] # d.name
          /\ ResolveReturned(d, resolver_def(names, d))
    /\ UNCHANGED <<sigVars, gamVars>>

\* The call returned Ok and the driver goes on to the next definition; an
\* error ends the compilation.
ResolveNext ==
    /\ rpc = "done"
    /\ rpc' = "idle"
    /\ rEntry' = EmptyNames
    /\ rDef' = NoDef
    /\ rOut' = NoOut
    /\ UNCHANGED <<names, sigVars, gamVars>>

-----------------------------------------------------------------------------
(* The elaborator (theory::conc::elab::Elaborator) on definitions without  *)
(* holes and implicit parameters.  In Sigma and Gamma a Var is its         *)
(* identity alone.  The state of the Elaborator is the record              *)
(* [sigma, gamma, calls]; calls is a history field: one record per         *)
(* guarded_check or guarded_infer call that returned, with Gamma when it   *)
(* was entered and Gamma when it returned.                                 *)

App(loc, f, x) == [tag |-> "App", loc |-> loc, f |-> f, x |-> x]
ExprString(loc) == [tag |-> "String", loc |-> loc]

NoTerm == [tag |-> "NoTerm"]
GammaVars == {"e", "g", "a", "x", "y", "v1", "v2", "v3"}
EmptyGamma == [v \in GammaVars |-> NoTerm]
\* self.gamma.insert(v, t)
GammaInsert(g, v, t) == [g EXCEPT ![v] = t]
\* self.gamma.remove(v)
GammaRemove(g, v) == [g EXCEPT ![v] = NoTerm]

RECURSIVE GammaInsertAll(_, _, _)
\* `for p in ps { self.gamma.insert(p.var, p.typ) }` up to index i
GammaInsertAll(g, ps, i) ==
    IF i = 0 THEN g
    ELSE GammaInsert(GammaInsertAll(g, ps, i - 1), ps[i].var, ps[i].typ)

RECURSIVE GammaRemoveAll(_, _, _)
\* `for p in ps { self.gamma.remove(&p.var) }` up to index i
GammaRemoveAll(g, ps, i) ==
    IF i = 0 THEN g ELSE GammaRemove(GammaRemoveAll(g, ps, i - 1), ps[i].var)

El(sg, g, calls) == [sigma |-> sg, gamma |-> g, calls |-> calls]
\* Outcomes of the elaborator's functions: the Elaborator they leave, and
\* the term and type (check: the term) they return.
EOk(el, tm, ty) ==
    [st |-> "Ok", sigma |-> el.sigma, gamma |-> el.gamma, calls |-> el.calls,
     tm |-> tm, ty |-> ty, err |-> NoErr]
EFail(st, el, err) ==
    [st |-> st, sigma |-> el.sigma, gamma |-> el.gamma, calls |-> el.calls,
     tm |-> Univ, ty |-> Univ, err |-> err]
\* The outcome r of a unifier or normalizer call that did not return Ok,
\* passed on by `?`.
EPass(el, r) == EFail(r.st, El(r.sigma, el.gamma, el.calls), r.err)

UnresolvedField(n, t) == [kind |-> "UnresolvedField", n |-> n, t |-> t]
FieldsUnknown(t) == [kind |-> "FieldsUnknown", t |-> t]
ExpectedEnum(t) == [kind |-> "ExpectedEnum", t |-> t]
ExpectedPi(t) == [kind |-> "ExpectedPi", t |-> t]

\* The operand infer_impl infers first in the arms for Pi, App and Switch.
FirstOperand(e) ==
    CASE e.tag = "Pi" -> e.p.typ
      [] e.tag = "App" -> e.f
      [] e.tag = "Switch" -> e.a

\* The history record of a guarded call that returned.
Logged(r, fn, entry, exit) ==
    [r EXCEPT !.gamma = exit,
              !.calls = @ \cup {[fn |-> fn, entry |-> entry, exit |-> exit]}]

RECURSIVE infer(_, _, _)
RECURSIVE check(_, _, _)
RECURSIVE guarded_check(_, _, _, _)
RECURSIVE guarded_infer(_, _, _, _)
RECURSIVE InferFields(_, _, _, _, _)
RECURSIVE SwitchCases(_, _, _, _, _, _)

\* What a guarded call returns when the call r inside it has returned:
\* after Ok the parameters are removed from Gamma, and the `?` after an
\* error returns at once.
Guarded(fn, entry, ps, r) ==
    IF r.st = "Ok" THEN Logged(r, fn, entry, GammaRemoveAll(r.gamma, ps, Len(ps)))
    ELSE IF r.st = "Err" THEN Logged(r, fn, entry, r.gamma)
    ELSE r

\* Elaborator::guarded_check
guarded_check(el, ps, e, ty) ==
    Guarded("guarded_check", el.gamma, ps,
            check(El(el.sigma, GammaInsertAll(el.gamma, ps, Len(ps)), el.calls), e, ty))

\* Elaborator::guarded_infer
guarded_infer(el, ps, e, hint) ==
    Guarded("guarded_infer", el.gamma, ps,
            infer(El(el.sigma, GammaInsertAll(el.gamma, ps, Len(ps)), el.calls), e, hint))

\* The loop of the Fields arm of infer_impl from field i on; r is what
\* infer returned for field i.
InferFieldsNext(r, fields, i, inferred, hint) ==
    IF r.st # "Ok" THEN r
    ELSE InferFields(r, fields, i + 1, FieldInsert(inferred, fields[i].n, r.tm), hint)

InferFields(el, fields, i, inferred, hint) ==
    IF i > Len(fields) THEN EOk(el, Fields(inferred), Row)
    ELSE InferFieldsNext(infer(el, fields[i].e, hint), fields, i, inferred, hint)

\* The loop of the Switch arm of infer_impl over the cases from i on; m is
\* the CaseMap built so far, r what guarded_check returned for case i.
SwitchCasesNext(r, f, cs, i, m, ret_ty) ==
    IF r.st # "Ok" THEN r
    ELSE SwitchCases(r, f, cs, i + 1,
                     FieldInsert(m, cs[i].n, [v |-> cs[i].v, tm |-> r.tm]), ret_ty)

SwitchCases(el, f, cs, i, m, ret_ty) ==
    IF i > Len(cs) THEN EOk(el, m, ret_ty)
    ELSE IF cs[i].n \notin DOMAIN f
    THEN EFail("Err", el, UnresolvedField(cs[i].n, Fields(f)))
    ELSE SwitchCasesNext(guarded_check(el, <<TermParam(cs[i].v, f[cs[i].n])>>,
                                       cs[i].e, ret_ty),
                         f, cs, i, m, ret_ty)

\* The Enum arm of infer_impl after the row was checked (r).
InferEnumBuilt(r) == IF r.st # "Ok" THEN r ELSE EOk(r, Enum(r.tm), Univ)

\* The Pi arm after the body was inferred (b) under the parameter p.
InferPiBuilt(p, b) == IF b.st # "Ok" THEN b ELSE EOk(b, TermPi(p, b.tm), b.ty)

\* The App arm after the argument was checked (x) and the body of the
\* function's type normalized with the argument (applied_ty).
InferAppBuilt(f, x, applied_ty) ==
    IF applied_ty.st # "Ok" THEN EPass(x, applied_ty)
    ELSE EOk(El(applied_ty.sigma, x.gamma, x.calls), TermApp(f.tm, x.tm), applied_ty.t)

InferAppArgument(f, x) ==
    IF x.st # "Ok" THEN x
    ELSE InferAppBuilt(f, x, NormalizeWith(x.sigma, f.ty.p.var, x.tm, f.ty.b))

\* The Switch arm after the cases were checked (m),
InferSwitchBuilt(a, m, ret_ty) ==
    IF m.st # "Ok" THEN m ELSE EOk(m, Switch(a.tm, m.tm), ret_ty)

\* and after the type of the scrutinee a was normalized (en).
InferSwitchCases(a, en, cs, ret_ty) ==
    IF en.st # "Ok" THEN EPass(a, en)
    ELSE IF en.t.tag # "Enum"
    THEN EFail("Err", El(en.sigma, a.gamma, a.calls), ExpectedEnum(en.t))
    ELSE IF en.t.r.tag # "Fields"
    THEN EFail("Err", El(en.sigma, a.gamma, a.calls), FieldsUnknown(en.t.r))
    ELSE IF Cardinality(DOMAIN en.t.r.f) # Len(cs)
    THEN EFail("Err", El(en.sigma, a.gamma, a.calls), NonExhaustive(en.t.r))
    ELSE InferSwitchBuilt(a, SwitchCases(El(en.sigma, a.gamma, a.calls), en.t.r.f,
                                         cs, 1, [l \in {} |-> Univ], ret_ty),
                          ret_ty)

\* The arms for Pi, App and Switch after their first operand was inferred.
InferFirst(e, hint, r) ==
    IF r.st # "Ok" THEN r
    ELSE IF e.tag = "Pi"
    THEN InferPiBuilt(TermParam(e.p.var, r.tm),
                      guarded_infer(r, <<TermParam(e.p.var, r.tm)>>, e.b, hint))
    ELSE IF e.tag = "App"
    THEN IF r.ty.tag # "Pi" THEN EFail("Err", r, ExpectedPi(r.ty))
         ELSE InferAppArgument(r, guarded_check(r, <<r.ty.p>>, e.x, r.ty.p.typ))
    ELSE InferSwitchCases(r, Normalize(r.sigma, r.ty), e.cs, hint.t)

\* gamma_to_tele and Term::tele_to_spine: a parameter, and a reference to
\* it, for every variable bound in Gamma.
RECURSIVE GammaToTele(_, _)
GammaToTele(g, vs) ==
    IF vs = {} THEN <<>>
    ELSE IF g[CHOOSE v \in vs : TRUE] = NoTerm
    THEN GammaToTele(g, vs \ {CHOOSE v \in vs : TRUE})
    ELSE <<TermParam(CHOOSE v \in vs : TRUE, g[CHOOSE v \in vs : TRUE])>>
         \o GammaToTele(g, vs \ {CHOOSE v \in vs : TRUE})
TeleToSpine(tele) == [k \in DOMAIN tele |-> Ref(tele[k].var)]
\* The holes Sigma holds: VarGen has generated two metas for each.
HolesIn(sg) == Cardinality({k \in DOMAIN MetaNames : Has(sg, MetaNames[k])}) \div 2
\* insert_meta with a term meta of no telescope.
InsertMetaClosed(el, h, tele) ==
    EOk(El([el.sigma EXCEPT
                ![TyMeta(h)] = Def(<<>>, Univ, MetaBody(None)),
                ![TmMeta(h)] = Def(<<>>, MetaRef(TyMeta(h)), MetaBody(None))],
           el.gamma, el.calls),
        [MetaRef(TmMeta(h)) EXCEPT !.sp = TeleToSpine(tele)],
        MetaRef(TyMeta(h)))
\* Elaborator::insert_meta: the h-th hole gets a type meta and, over the
\* telescope of Gamma, a term meta; its term is the term meta applied to
\* the variables of Gamma.
InsertMetaAt(el, h, tele) ==
    EOk(El([el.sigma EXCEPT
                ![TyMeta(h)] = Def(<<>>, Univ, MetaBody(None)),
                ![TmMeta(h)] = Def(tele, MetaRef(TyMeta(h)), MetaBody(None))],
           el.gamma, el.calls),
        [MetaRef(TmMeta(h)) EXCEPT !.sp = TeleToSpine(tele)],
        MetaRef(TyMeta(h)))
insert_meta(el) ==
    InsertMetaAt(el, HolesIn(el.sigma) + 1, GammaToTele(el.gamma, GammaVars))

\* Elaborator::infer_impl
infer(el, e, hint) ==
    CASE e.tag = "Resolved" ->
            IF e.v \in DOMAIN el.gamma /\ el.gamma[e.v] # NoTerm
            THEN EOk(el, Ref(e.v), el.gamma[e.v])
            ELSE IF ~Has(el.sigma, e.v) \/ ToTerm(el.sigma[e.v], e.v).st = "Panic"
            THEN EFail("Panic", el, NoErr)
            ELSE EOk(el, ToTerm(el.sigma[e.v], e.v).t, el.sigma[e.v].ret)
      [] e.tag = "Hole" -> insert_meta(el)
      [] e.tag = "Num" -> EOk(el, Num(1), Number)
      [] e.tag = "Number" -> EOk(el, Number, Univ)
      [] e.tag = "String" -> EOk(el, String, Univ)
      [] e.tag = "Fields" -> InferFields(el, e.fields, 1, [l \in {} |-> Univ], hint)
      [] e.tag = "Enum" -> InferEnumBuilt(check(el, e.r, Row))
      [] e.tag = "Switch" /\ hint = None -> EFail("Panic", el, NoErr)
      [] e.tag \in {"Pi", "App"} \/ (e.tag = "Switch" /\ hint # None) ->
            InferFirst(e, hint, infer(el, FirstOperand(e), hint))
      [] OTHER -> EFail("Panic", el, NoErr)

\* The Let arm of check_impl after the body was checked (b).
CheckLetBuilt(e, ty, a, b) ==
    IF b.st # "Ok" THEN b
    ELSE EOk(b, TermLet(TermParam(e.x, a.ty), a.tm, b.tm), ty)

\* The last arm of check_impl, from its end to its start: after the
\* unifier returned u,
CheckUnified(ty, r, u) ==
    IF u.st # "Ok" THEN EPass(r, u) ELSE EOk(El(u.sigma, r.gamma, r.calls), r.tm, ty)

\* after the expected type was normalized.  No type of the model is an
\* implicit Pi, so app_insert_holes returns None,
CheckExpected(ty, r, inferred, expected) ==
    IF expected.st # "Ok" THEN EPass(r, expected)
    ELSE CheckUnified(ty, r, unify(expected.sigma, expected.t, inferred.t))

\* after the inferred type was normalized,
CheckInferred(ty, r, inferred) ==
    IF inferred.st # "Ok" THEN EPass(r, inferred)
    ELSE CheckExpected(ty, r, inferred, Normalize(inferred.sigma, ty))

\* and after infer returned r (in the Let arm: for the bound expression).
CheckFirst(e, ty, r) ==
    IF r.st # "Ok" THEN r
    ELSE IF e.tag = "Let"
    THEN CheckLetBuilt(e, ty, r, guarded_check(r, <<TermParam(e.x, r.ty)>>, e.b, ty))
    ELSE CheckInferred(ty, r, Normalize(r.sigma, r.ty))

\* Elaborator::check_impl: the arm for Let (without a type annotation) and
\* the last arm, for everything infer_impl handles.
check(el, e, ty) ==
    CheckFirst(e, ty, infer(el, IF e.tag = "Let" THEN e.a ELSE e, Some(ty)))

RECURSIVE ElabTele(_, _, _, _)

\* The telescope loop of Elaborator::def when the type of parameter i was
\* checked (r): the parameter is bound in Gamma.
ElabTeleNext(r, tele, i, acc) ==
    IF r.st # "Ok" THEN r
    ELSE ElabTele(El(r.sigma, GammaInsert(r.gamma, tele[i].var, r.tm), r.calls),
                  tele, i + 1, Append(acc, TermParam(tele[i].var, r.tm)))

\* The telescope loop of Elaborator::def from parameter i on.
ElabTele(el, tele, i, acc) ==
    IF i > Len(tele) THEN EOk(el, acc, Univ)
    ELSE ElabTeleNext(check(el, tele[i].typ, Univ), tele, i, acc)

\* Elaborator::def for a function definition, from its end to its start:
\* the body was checked; the telescope is removed from Gamma and the body
\* replaces Undefined,
ElabDefEnd(d, ret, body) ==
    IF body.st # "Ok" THEN body
    ELSE EOk(El([body.sigma EXCEPT ![d.name] = SetBody(@, Fun(body.tm))],
                GammaRemoveAll(body.gamma, d.tele, Len(d.tele)),
                body.calls),
             body.tm, ret.tm)

\* the return type was checked; the entry is inserted with an Undefined
\* body and the body is checked,
ElabDefBody(d, t, ret) ==
    IF ret.st # "Ok" THEN ret
    ELSE ElabDefEnd(d, ret,
                    check(El([ret.sigma EXCEPT ![d.name] = Def(t.tm, ret.tm, Undefined)],
                             ret.gamma, ret.calls),
                          d.body.t, ret.tm))

\* the telescope was checked and bound in Gamma.
ElabDefRet(d, t) ==
    IF t.st # "Ok" THEN t ELSE ElabDefBody(d, t, check(t, d.ret, Univ))

\* Elaborator::def
elab_def(el, d) == ElabDefRet(d, ElabTele(el, d.tele, 1, <<>>))

-----------------------------------------------------------------------------
(* The definitions handed to the elaborator: resolved, so that every       *)
(* Resolved refers to a parameter or to a variable bound around it.        *)

EnumAB(l) ==
    ExprEnum(l, ExprFields(l, <<[n |-> "A", e |-> ExprNumber(l + 1)],
                                [n |-> "B", e |-> ExprNumber(l + 2)]>>))
PiType(l) == Pi(l, Param("a", ExprNumber(l + 1)), ExprNumber(l + 2))

CaseVars == <<"v1", "v2", "v3">>
\* Case lists of k cases over the tags A, B, C; tags may repeat.  Case i
\* binds CaseVars[i] and returns it or a number.
CaseListsOf(k) ==
    {[i \in 1..k |-> [n |-> ns[i], v |-> CaseVars[i],
                      e |-> IF byvar THEN Resolved(10 + i, CaseVars[i])
                            ELSE ExprNum(10 + i)]] :
        ns \in [1..k -> {"A", "B", "C"}], byvar \in BOOLEAN}
CaseLists == CaseListsOf(1) \cup CaseListsOf(2) \cup CaseListsOf(3)

ClosedBodies ==
    {ExprNum(6),
     Let(6, "x", NoExpr, ExprNum(7), Resolved(8, "x")),
     Let(6, "x", NoExpr, ExprNum(7),
         Let(8, "y", NoExpr, Resolved(9, "x"), Resolved(10, "y")))}
SwitchBodies ==
    {ExprSwitch(6, Resolved(7, "e"), cs) : cs \in CaseLists}
    \cup {Let(6, "x", NoExpr, ExprNum(7), ExprSwitch(8, Resolved(9, "e"), cs)) :
             cs \in CaseListsOf(2)}
AppBodies ==
    {App(6, Resolved(7, "g"), ExprNum(8)),
     App(6, Resolved(7, "g"), App(8, Resolved(9, "g"), ExprNum(10))),
     App(6, Resolved(7, "g"), Let(8, "x", NoExpr, ExprNum(9), Resolved(10, "x")))}

ElabInputs ==
    {ExprDef("D1", tb[1], ret, Fun(tb[2])) :
        tb \in ({<<>>} \X ClosedBodies)
               \cup ({<<Param("e", EnumAB(1))>>} \X (ClosedBodies \cup SwitchBodies))
               \cup ({<<Param("g", PiType(1))>>} \X (ClosedBodies \cup AppBodies)),
        ret \in {ExprNumber(5), ExprString(5)}}

RECURSIVE ElabDefsLoop(_, _, _, _)
\* The loop of Elaborator::defs when def has returned r for ds[i]: the
\* Def it returned, the entry of Sigma, is pushed onto ret.
ElabDefsNext(r, ds, i, ret) ==
    IF r.st # "Ok" THEN r
    ELSE ElabDefsLoop(r, ds, i + 1,
                      Append(ret, [name |-> ds[i].name, def |-> r.sigma[ds[i].name]]))
ElabDefsLoop(el, ds, i, ret) ==
    IF i > Len(ds) THEN EOk(el, ret, Univ)
    ELSE ElabDefsNext(elab_def(el, ds[i]), ds, i, ret)
\* Elaborator::defs
elab_defs(el, ds) == ElabDefsLoop(el, ds, 1, <<>>)

\* The modules handed to Elaborator::defs: one or two functions without
\* parameters whose body is a literal, a hole, a Let or a reference to the
\* other function.
ModuleDefs(name, other) ==
    {ExprDef(name, <<>>, ret, Fun(b)) :
        ret \in {ExprNumber(5), ExprString(5)},
        b \in {ExprNum(6), Hole(6), Resolved(6, other),
               Let(6, "x", NoExpr, ExprNum(7), Resolved(8, "x"))}}
DefLists ==
    {<<d>> : d \in ModuleDefs("D1", "D1")}
    \cup {<<d1, d2>> : d1 \in ModuleDefs("D1", "D1"), d2 \in ModuleDefs("D2", "D1")}
    \cup {<<d2, d1>> : d1 \in ModuleDefs("D1", "D2"), d2 \in ModuleDefs("D2", "D2")}

NoElabDef == ExprDef("", <<>>, NoExpr, Postulate)
NoElabOut == [st |-> "None", err |-> NoErr, calls |-> {}, tm |-> Univ]

\* A fresh Elaborator (Elaborator::default()).
GamInit ==
    /\ gamma = EmptyGamma
    /\ gpc = "idle"
    /\ gEntry = EmptyGamma
    /\ gCall = NoElabDef
    /\ gOut = NoElabOut

\* The driver's state when Elaborator::def(d) has returned r.
ElabReturned(d, r) ==
    /\ sigma' = r.sigma
    /\ gamma' = r.gamma
    /\ gEntry' = gamma
    /\ gCall' = d
    /\ gOut' = [st |-> r.st, err |-> r.err, calls |-> r.calls, tm |-> r.tm]
    /\ gpc' = IF r.st = "Ok" THEN "done" ELSE "failed"

\* Elaborator::def(d)
ElabDef ==
    /\ gpc = "idle"
    /\ \E d \in ElabInputs :
          /\ ~Has(sigma, d.name)
          /\ ElabReturned(d, elab_def(El(sigma, gamma, {}), d))
    /\ UNCHANGED <<nholes, op, resVars>>

\* The definition just elaborated, with one enum parameter, applied to the
\* variant l of that enum: Normalizer::apply binds the parameter of the
\* definition's Lam to the argument and normalizes the body (Normalizer::with).
ApplyVariant ==
    /\ gpc = "done"
    /\ op.name = "none"
    /\ Len(gCall.tele) = 1
    /\ gCall.tele[1].typ.tag = "Enum"
    /\ \E i \in DOMAIN gCall.tele[1].typ.r.fields :
          NormalizeReturned(gOut.tm,
              NormalizeWith(sigma, gCall.tele[1].var,
                            Variant(Fields(OneField(gCall.tele[1].typ.r.fields[i].n, Num(1)))),
                            gOut.tm))
    /\ UNCHANGED <<nholes, resVars, gamVars>>

\* The driver's state when Elaborator::defs(ds) has returned r.
DefsReturned(ds, r) ==
    /\ sigma' = r.sigma
    /\ gamma' = r.gamma
    /\ nholes' = HolesIn(r.sigma)
    /\ op' = [name |-> "defs", a |-> ds, b |-> Univ, st |-> r.st, err |-> r.err,
              t |-> r.tm]

\* Elaborator::defs(ds) on a fresh Elaborator.
ElabDefs ==
    /\ op.name = "none"
    /\ \A k \in SigmaKeys : ~Has(sigma, k)
    /\ \E ds \in DefLists : DefsReturned(ds, elab_defs(El(sigma, gamma, {}), ds))
    /\ UNCHANGED <<resVars, gpc, gEntry, gCall, gOut>>

\* def returned Ok and Elaborator::defs goes on; an error ends elaboration.
ElabNext ==
    /\ gpc = "done"
    /\ gpc' = "idle"
    /\ gEntry' = EmptyGamma
    /\ gCall' = NoElabDef
    /\ gOut' = NoElabOut
    /\ UNCHANGED <<sigma, gamma, nholes, op, resVars>>

-----------------------------------------------------------------------------
(* Specifications: Sigma under the unifier and the normalizer (Spec), the  *)
(* resolver (SpecResolve), the elaborator (SpecElab).  Each leaves the     *)
(* variables of the others as they are after construction.                 *)

SigFresh == sigma = SigmaInit(<<>>) /\ nholes = 0 /\ op = NoOp

Init == SigInit /\ ResInit /\ GamInit
Next == InsertMeta \/ ElabImplements \/ UnifyCall \/ NormalizeCall \/ Return
Spec == Init /\ [][Next]_vars

InitResolve == SigFresh /\ ResInit /\ GamInit
NextResolve == ResolveDef \/ ResolveNext
SpecResolve == InitResolve /\ [][NextResolve]_vars

\* Sigma under the elaboration of `implements` definitions alone.
InitImpl == SigInit /\ ResInit /\ GamInit
NextImpl == ElabImplements \/ Return
SpecImpl == InitImpl /\ [][NextImpl]_vars

InitRows == SigInit /\ ResInit /\ GamInit
NextRows == NormalizeRows \/ Return
SpecRows == InitRows /\ [][NextRows]_vars

\* Sigma under holes, their solutions and the normalizer.
InitNorm == SigNorm /\ ResInit /\ GamInit
NextNorm == InsertMeta \/ SolveMeta \/ NormalizeTerm \/ Renormalize \/ Return
SpecNorm == InitNorm /\ [][NextNorm]_vars

-----------------------------------------------------------------------------
(* Holes elaborated under a Gamma, their solutions and the normalizer on   *)
(* references to them.                                                     *)

\* The Gammas a hole is elaborated under.
Gammas ==
    {EmptyGamma, GammaInsert(EmptyGamma, "x", Number),
     GammaInsert(GammaInsert(EmptyGamma, "x", Number), "y", String)}
\* The variables Gamma binds.
GammaBound(g) == {v \in DOMAIN g : g[v] # NoTerm}
\* gamma_to_tele iterates a HashMap: the telescopes it can return are the
\* parameters of Gamma in every order.
TelesOf(g) ==
    {[k \in DOMAIN vs |-> TermParam(vs[k], g[vs[k]])] :
        vs \in {s \in [1..Cardinality(GammaBound(g)) -> GammaBound(g)] :
                   \A i, j \in DOMAIN s : s[i] = s[j] => i = j}}
RowA(t) == Fields(OneField("A", t))
\* The types a type meta is unified with: a plain type, row constraints
\* that hold, one that does not hold, one over a row that is a reference,
\* and an interface constraint.
TypeSolutions ==
    {Number,
     RowEq(RowA(Number), RowA(Number)), RowEq(RowA(Number), RowA(String)),
     RowOrd(RowA(Number), "Le", Fields(FieldInsert(OneField("B", String), "A", Number))),
     RowOrd(Ref("r"), "Le", RowA(Number)),
     ImplementsOf(Ref("T"), "I")}
\* The terms a term meta with the telescope tele is unified with: closed
\* terms and terms over the variables of the telescope.
TermSolutions(tele) ==
    {Num(1)}
    \cup (IF Len(tele) >= 1 THEN {Ref("x")} ELSE {})
    \cup (IF Len(tele) >= 2 THEN {Tuple(Ref("y"), Ref("x"))} ELSE {})
\* The spines a reference to a meta with the telescope tele carries: the
\* variables of the telescope or arguments in their place.
Spines(tele) ==
    {TeleToSpine(tele),
     [k \in DOMAIN tele |-> IF tele[k].typ = Number THEN Num(1) ELSE Str("s")]}

\* op.a is the Gamma of the Elaborator, op.t and op.b the term and the
\* type returned.
InsertMetaReturned(g, r) ==
    /\ sigma' = r.sigma
    /\ op' = [name |-> "insert_meta", a |-> g, b |-> r.ty, st |-> r.st, err |-> r.err,
              t |-> r.tm]

\* Elaborator::insert_meta under the Gamma g.
InsertMetaUnder ==
    /\ op.name = "none"
    /\ nholes < MaxHoles
    /\ nholes' = nholes + 1
    /\ \E g \in Gammas :
          \E tele \in TelesOf(g) :
              InsertMetaReturned(g, InsertMetaAt(El(sigma, g, {}), nholes + 1, tele))
    /\ UNCHANGED <<resVars, gamVars>>

\* Unifier::new(&mut sigma, loc).unify(MetaRef(m), b) for a type meta and
\* for a term meta.
SolveHole ==
    /\ op.name = "none"
    /\ \E h \in 1..nholes :
          \/ \E b \in TypeSolutions :
                UnifyReturned(MetaRef(TyMeta(h)), b, unify(sigma, MetaRef(TyMeta(h)), b))
          \/ \E b \in TermSolutions(sigma[TmMeta(h)].tele) :
                UnifyReturned(MetaRef(TmMeta(h)), b, unify(sigma, MetaRef(TmMeta(h)), b))
    /\ UNCHANGED <<nholes, resVars, gamVars>>

\* Normalizer::new(&mut sigma, loc).term(MetaRef(k, m, sp))
NormalizeMeta ==
    /\ op.name = "none"
    /\ \E m \in TyMetas(nholes) \cup TmMetas(nholes) :
          \E sp \in Spines(sigma[m].tele) :
              NormalizeReturned([MetaRef(m) EXCEPT !.sp = sp],
                                Normalize(sigma, [MetaRef(m) EXCEPT !.sp = sp]))
    /\ UNCHANGED <<nholes, resVars, gamVars>>

InitMeta == SigInit /\ ResInit /\ GamInit
NextMeta == InsertMetaUnder \/ SolveHole \/ NormalizeMeta \/ Return
SpecMeta == InitMeta /\ [][NextMeta]_vars

-----------------------------------------------------------------------------
(* The unifier on references to definitions.                               *)

\* The terms handed to unify: references to the postulates f1, f2 and m,
\* to the aliases T1 and T2 and to a local variable, base types, and pairs
\* of them.
RefTerms ==
    {Ref("f1"), Ref("f2"), Ref("m"), Ref("T1"), Ref("T2"), Ref("x"), Number, String,
     Tuple(Ref("f1"), Number), Tuple(Ref("f1"), Ref("f2")), Tuple(Number, Ref("T1"))}

\* Unifier::new(&mut sigma, loc).unify(a, b) on terms with references
UnifyRefs ==
    /\ op.name = "none"
    /\ \E a \in RefTerms, b \in RefTerms : UnifyReturned(a, b, unify(sigma, a, b))
    /\ UNCHANGED <<nholes, resVars, gamVars>>

InitUnify == SigInit /\ ResInit /\ GamInit
NextUnify == UnifyRefs \/ Return
SpecUnify == InitUnify /\ [][NextUnify]_vars

-----------------------------------------------------------------------------
(* The unifier on pairs that hold metas.                                   *)

\* The terms handed to unify: pairs of base types and pairs with a
\* reference to one of the n holes' metas in them.
PairTerms(n) ==
    {Tuple(a, b) : a, b \in {Number, String}}
    \cup {Tuple(MetaRef(m), b) : m \in TmMetas(n), b \in {Number, String}}
    \cup {Tuple(b, MetaRef(m)) : m \in TmMetas(n), b \in {Number, String}}

\* Unifier::new(&mut sigma, loc).unify(a, b) on pairs
UnifyPairs ==
    /\ op.name = "none"
    /\ \E a \in PairTerms(nholes), b \in PairTerms(nholes) :
          UnifyReturned(a, b, unify(sigma, a, b))
    /\ UNCHANGED <<nholes, resVars, gamVars>>

InitPairs == SigInit /\ ResInit /\ GamInit
NextPairs == InsertMeta \/ UnifyPairs \/ Return
SpecPairs == InitPairs /\ [][NextPairs]_vars

-----------------------------------------------------------------------------
(* Implicit insertion: Elaborator::app_insert_holes and the App arm of     *)
(* infer_impl that re-infers the application around the wrapped callee.    *)

\* Param<Term> with its ParamInfo.
InfoParam(v, info, typ) == [var |-> v, info |-> info, typ |-> typ]
\* ArgInfo
UnnamedExplicit == [tag |-> "UnnamedExplicit"]
UnnamedImplicit == [tag |-> "UnnamedImplicit"]
NamedImplicit(n) == [tag |-> "NamedImplicit", name |-> n]
InsertedHole(loc) == [tag |-> "InsertedHole", loc |-> loc]
UnresolvedImplicitParam(n, loc) == [kind |-> "UnresolvedImplicitParam", n |-> n, loc |-> loc]

\* Expr::holed_app
holed_app(f) ==
    [tag |-> "App", loc |-> f.loc, f |-> f, i |-> UnnamedImplicit, x |-> InsertedHole(f.loc)]

\* (0..n).fold(f_e, |e, _| Expr::holed_app(e))
RECURSIVE HoledApps(_, _)
HoledApps(f, n) == IF n = 0 THEN f ELSE holed_app(HoledApps(f, n - 1))

\* The outcome of holes_to_insert and of app_insert_holes: a count or an
\* Option<Expr>, an error, or the panic of unreachable!().
HOk(v) == [st |-> "Ok", v |-> v, err |-> NoErr]
HErr(e) == [st |-> "Err", v |-> None, err |-> e]
HPanic == [st |-> "Panic", v |-> None, err |-> NoErr]

\* holes_to_insert, the loop from the count ret on.
RECURSIVE holes_to_insert(_, _, _, _)
\* holes_to_insert that compares the name before it looks at the info.
holes_to_insert_named(loc, name, ty, ret) ==
    IF ty.tag # "Pi" THEN HPanic
    ELSE IF ty.p.var = name THEN HOk(ret)
    ELSE IF ty.p.info # "Implicit" THEN HErr(UnresolvedImplicitParam(name, loc))
    ELSE holes_to_insert(loc, name, ty.b, ret + 1)
holes_to_insert(loc, name, ty, ret) ==
    IF ty.tag # "Pi" THEN HPanic
    ELSE IF ty.p.info # "Implicit" THEN HErr(UnresolvedImplicitParam(name, loc))
    ELSE IF ty.p.var = name THEN HOk(ret)
    ELSE holes_to_insert(loc, name, ty.b, ret + 1)

\* `match holes_to_insert(..)? { 0 => None, n => Some(fold) }`
HolesInserted(f_e, r) ==
    IF r.st # "Ok" THEN r
    ELSE IF r.v = 0 THEN HOk(None)
    ELSE HOk(Some(HoledApps(f_e, r.v)))

\* Elaborator::app_insert_holes
app_insert_holes(f_e, i, f_ty) ==
    IF f_ty.tag = "Pi" /\ f_ty.p.info = "Implicit"
    THEN CASE i.tag = "UnnamedExplicit" -> HOk(Some(holed_app(f_e)))
           [] i.tag = "NamedImplicit" ->
                HolesInserted(f_e, holes_to_insert(f_e.loc, i.name, f_ty, 0))
           [] OTHER -> HOk(None)
    ELSE HOk(None)

\* The longest chain of parameters of a callee's type.
MaxChain == MaxDepth - 1
ParamNames == {"a", "n"}
\* The chains of parameters: each named a or n, implicit or explicit.
ParamChains ==
    UNION {[1..k -> {[var |-> v, info |-> i] : v \in ParamNames,
                                              i \in {"Implicit", "Explicit"}}]
           : k \in 0..MaxChain}
\* The type of a callee: the Pi's of the chain ps from the k-th on.
RECURSIVE PiChain(_, _)
PiChain(ps, k) ==
    IF k > Len(ps) THEN Number
    ELSE TermPi(InfoParam(ps[k].var, ps[k].info, Number), PiChain(ps, k + 1))
ArgInfos == {UnnamedExplicit, UnnamedImplicit, NamedImplicit("n")}

\* The number of holes a callee is wrapped in.
RECURSIVE HolesOf(_)
HolesOf(e) == IF e.tag = "App" /\ e.x.tag = "InsertedHole" THEN 1 + HolesOf(e.f) ELSE 0
\* The type of a callee after n of its parameters were applied.
RECURSIVE Applied(_, _)
Applied(ty, n) == IF n = 0 THEN ty ELSE Applied(ty.b, n - 1)

\* op.a is the callee, its type and the ArgInfo of the call, op.b the
\* type of the callee before any hole, op.t the Option<Expr> returned.
InsertHolesReturned(f_e, i, f_ty, ty0, r) ==
    op' = [name |-> "app_insert_holes", a |-> [e |-> f_e, i |-> i, ty |-> f_ty],
           b |-> ty0, st |-> r.st, err |-> r.err, t |-> r.v]

\* The App arm of infer_impl on App(f, i, x) with f of the type f_ty, up
\* to Self::app_insert_holes(f_e, i, &f_ty).
InferApp ==
    /\ op.name = "none"
    /\ \E ps \in ParamChains, i \in ArgInfos :
          InsertHolesReturned(Resolved(1, Var(1, "f")), i, PiChain(ps, 1), PiChain(ps, 1),
                              app_insert_holes(Resolved(1, Var(1, "f")), i, PiChain(ps, 1)))
    /\ UNCHANGED <<sigma, nholes, resVars, gamVars>>

\* `return self.infer(App(f_loc, f_e, ai, x), hint)`: the wrapped callee
\* is inferred, each inserted hole applied to one implicit parameter of
\* the type, and app_insert_holes is called on the callee again.
ReInferApp ==
    /\ op.name = "app_insert_holes"
    /\ op.st = "Ok"
    /\ op.t.tag = "Some"
    /\ InsertHolesReturned(op.t.t, op.a.i,
                           Applied(op.a.ty, HolesOf(op.t.t) - HolesOf(op.a.e)), op.b,
                           app_insert_holes(op.t.t, op.a.i,
                                            Applied(op.a.ty,
                                                    HolesOf(op.t.t) - HolesOf(op.a.e))))
    /\ UNCHANGED <<sigma, nholes, resVars, gamVars>>

\* The App arm goes on with the callee as it is.
InferAppDone ==
    /\ op.name = "app_insert_holes"
    /\ op.st = "Ok"
    /\ op.t.tag = "None"
    /\ op' = NoOp
    /\ UNCHANGED <<sigma, nholes, resVars, gamVars>>

InitHoles == SigFresh /\ ResInit /\ GamInit
NextHoles == InferApp \/ ReInferApp \/ InferAppDone
SpecHoles == InitHoles /\ [][NextHoles]_vars

-----------------------------------------------------------------------------
(* Name mangling of the code generator (codegen::mangle, mangle_hkt).  A   *)
(* String is the sequence of its characters.                               *)

Unit == Atom("Unit")
BigInt == Atom("BigInt")
NonErasable(t) == [kind |-> "NonErasable", t |-> t]
MOk(str) == [st |-> "Ok", s |-> str, err |-> NoErr]
MErr(e) == [st |-> "Err", s |-> <<>>, err |-> e]
MPanic == [st |-> "Panic", s |-> <<>>, err |-> NoErr]

RECURSIVE Mangle(_), MangleFields(_, _, _)

\* `format!("({}{})", mangle(..)?, mangle(..)?)` and its like: the two
\* results a and b between the brackets, or the first failure.
MangleJoin(open, a, b, close) ==
    IF a.st # "Ok" THEN a
    ELSE IF b.st # "Ok" THEN b
    ELSE MOk(open \o a.s \o b.s \o close)

\* The characters `{name}` writes for a label.
LabelChars(l) == IF l = "ANB" THEN <<"A", "N", "B">> ELSE <<l>>

\* The loop over the fields sorted by name, from the label Head(ls) on; ms
\* is the string joined so far.
MangleFields(f, ls, ms) ==
    IF ls = <<>> THEN MOk(ms)
    ELSE IF Mangle(f[Head(ls)]).st # "Ok" THEN Mangle(f[Head(ls)])
    ELSE MangleFields(f, Tail(ls), ms \o LabelChars(Head(ls)) \o Mangle(f[Head(ls)]).s)

\* The arms of mangle after the first.
MangleArms(tm) ==
    CASE tm.tag = "Pi" -> MangleJoin(<<"(">>, Mangle(tm.p.typ), Mangle(tm.b), <<")">>)
      [] tm.tag = "Unit" -> MOk(<<"U">>)
      [] tm.tag = "Boolean" -> MOk(<<"T">>)
      [] tm.tag = "String" -> MOk(<<"S">>)
      [] tm.tag = "Number" -> MOk(<<"N">>)
      [] tm.tag = "BigInt" -> MOk(<<"B">>)
      [] tm.tag = "Fields" -> MangleFields(tm.f, FieldLabels(tm.f), <<>>)
      [] tm.tag = "Object" -> MangleJoin(<<"{">>, Mangle(tm.r), MOk(<<>>), <<"}">>)
      [] tm.tag = "Enum" -> MangleJoin(<<"[">>, Mangle(tm.r), MOk(<<>>), <<"]">>)
      [] OTHER -> MPanic

\* (A mangle that gives a Ref a letter of its own.)
MangleRefNamed(tm) ==
    IF tm.tag = "Ref" THEN MOk(<<"R">>) ELSE MangleArms(tm)

\* mangle(loc, tm): a Ref is not erasable.
Mangle(tm) ==
    IF tm.tag = "Ref" THEN MErr(NonErasable(tm)) ELSE MangleArms(tm)

\* mangle_hkt(loc, n, ts): the name and the mangled type arguments joined.
RECURSIVE MangleHkt(_, _, _)
MangleHkt(ts, k, ms) ==
    IF k > Len(ts) THEN MOk(ms)
    ELSE IF Mangle(ts[k]).st # "Ok" THEN Mangle(ts[k])
    ELSE MangleHkt(ts, k + 1, ms \o Mangle(ts[k]).s)
mangle_hkt(n, ts) == MangleHkt(ts, 1, <<n>>)

\* The type arguments handed to mangle_hkt: base types and references to
\* type parameters, function types, rows, objects and enums over them.
BaseTypes == {Unit, Boolean, String, Number, BigInt, Ref("T")}
RowTypes ==
    {Fields([l \in {} |-> Univ])}
    \cup {Fields(OneField("A", x)) : x \in BaseTypes}
    \cup {Fields(FieldInsert(OneField("B", x), "A", Number)) : x \in BaseTypes}
    \cup {Fields(OneField("ANB", x)) : x \in {String, Number}}
ArgTypes ==
    BaseTypes
    \cup {TermPi(TermParam("a", x), y) : x \in {Number, Ref("T")}, y \in BaseTypes}
    \cup RowTypes
    \cup {Object(r) : r \in RowTypes} \cup {Enum(r) : r \in RowTypes}
    \cup {TermPi(TermParam("a", Object(r)), Number) : r \in RowTypes}
    \cup {TermPi(TermParam("a", Number), Enum(r)) : r \in RowTypes}
TypeLists ==
    {<<>>} \cup {<<t>> : t \in ArgTypes}
    \cup {<<t, u>> : t \in {Number, Ref("T"), Object(Fields(OneField("A", Ref("T"))))},
                     u \in ArgTypes}

\* The code generator's state when mangle_hkt(loc, n, ts) has returned r.
MangleReturned(ts, r) ==
    op' = [name |-> "mangle_hkt", a |-> ts, b |-> Univ, st |-> r.st, err |-> r.err,
           t |-> r.s]

\* mangle_hkt(loc, "f", ts)
MangleCall ==
    /\ op.name = "none"
    /\ \E ts \in TypeLists : MangleReturned(ts, mangle_hkt("f", ts))
    /\ UNCHANGED <<sigma, nholes, resVars, gamVars>>

InitMangle == SigFresh /\ ResInit /\ GamInit
NextMangle == MangleCall \/ Return
SpecMangle == InitMangle /\ [][NextMangle]_vars

-----------------------------------------------------------------------------
(* The driver (Driver::run, load_module, load, load_src).  A project is    *)
(* the prelude directory and the directories of the modules Main (the      *)
(* default ModuleID) and B, each a sequence of source files in the order   *)
(* read_dir yields them; of a file the driver sees its imports and whether *)
(* it has a definition that is not private.  The driver's record holds     *)
(* `loaded`, the events so far and whether the stack has overflowed.       *)

Event(ev, m, f) == [ev |-> ev, module |-> m, file |-> f]
Driver(loaded, log, st) == [loaded |-> loaded, log |-> log, st |-> st]
\* Loaded::contains(module): some definition of the module was inserted.
LoadedContains(dr, m) == m \in dr.loaded
\* Loaded::insert(module, def)
LoadedInsert(dr, m) == dr.loaded \cup {m}

RECURSIVE Load(_, _, _, _), LoadFiles(_, _, _, _, _), LoadImports(_, _, _, _, _)

\* Driver::load_module
load_module(dr, proj, m, depth) ==
    IF LoadedContains(dr, m) THEN dr ELSE Load(dr, proj, m, depth)

\* The fold over the imports of a file from the k-th on: each is loaded,
\* unless one before it failed.
LoadImports(dr, proj, imports, k, depth) ==
    IF dr.st # "Ok" \/ k > Len(imports) THEN dr
    ELSE LoadImports(load_module(dr, proj, imports[k], depth), proj, imports, k + 1, depth)

\* load_src after the imports were loaded (dr): the file is resolved and
\* elaborated, its definitions become built-ins when it belongs to the
\* prelude, and otherwise its public definitions are inserted into
\* `loaded`.
LoadSrcDefs(dr, m, f) ==
    IF dr.st # "Ok" THEN dr
    ELSE Driver(IF m # "prelude" /\ f.pub THEN LoadedInsert(dr, m) ELSE dr.loaded,
                dr.log \o <<Event("resolve", m, f.name), Event("elab", m, f.name)>>
                       \o (IF m = "prelude" THEN <<Event("builtin", m, f.name)>>
                           ELSE <<>>),
                "Ok")

\* Driver::load_src
load_src(dr, proj, m, f, depth) ==
    LoadSrcDefs(LoadImports(dr, proj, f.imports, 1, depth), m, f)

\* The loop of Driver::load over the files of the directory from the k-th
\* on, and the hand-over of the module (not of the prelude, which is
\* loaded by path) to the code generator after it.
LoadFiles(dr, proj, m, k, depth) ==
    IF dr.st # "Ok" THEN dr
    ELSE IF k > Len(proj[m])
    THEN (IF m = "prelude" THEN dr
          ELSE Driver(dr.loaded, Append(dr.log, Event("codegen", m, "")), "Ok"))
    ELSE LoadFiles(load_src(dr, proj, m, proj[m][k], depth), proj, m, k + 1, depth)

\* Driver::load; depth is the room left on the stack.
Load(dr, proj, m, depth) ==
    IF depth = 0 THEN Driver(dr.loaded, dr.log, "Overflow")
    ELSE LoadFiles(dr, proj, m, 1, depth - 1)

\* Driver::run after the prelude was loaded (dr).
RunMain(dr, proj) ==
    IF dr.st # "Ok" THEN dr ELSE load_module(dr, proj, "Main", MaxDepth)
\* Driver::run
run(proj) == RunMain(Load(Driver({}, <<>>, "Ok"), proj, "prelude", MaxDepth), proj)

\* The projects handed to the driver: a prelude of one file, Main of one
\* or two files and B of up to two files; a file imports nothing, B or
\* Main.
SourceFiles(name) ==
    {[name |-> name, imports |-> is, pub |-> pub] :
        is \in {<<>>, <<"B">>, <<"Main">>}, pub \in BOOLEAN}
Dirs(a, b) ==
    {<<f>> : f \in SourceFiles(a)}
    \cup {<<f, g>> : f \in SourceFiles(a), g \in SourceFiles(b)}
Projects ==
    {[prelude |-> <<[name |-> "prelude", imports |-> <<>>, pub |-> TRUE]>>,
      Main |-> main, B |-> b] :
        main \in Dirs("main1", "main2"), b \in {<<>>} \cup Dirs("b1", "b2")}

\* The caller's state when Driver::run has returned r for the project.
RunReturned(proj, r) ==
    op' = [name |-> "run", a |-> proj, b |-> Univ, st |-> r.st, err |-> NoErr,
           t |-> r.log]

\* Driver::new(path, target).run()
DriverRun ==
    /\ op.name = "none"
    /\ \E proj \in Projects : RunReturned(proj, run(proj))
    /\ UNCHANGED <<sigma, nholes, resVars, gamVars>>

InitDriver == SigFresh /\ ResInit /\ GamInit
NextDriver == DriverRun \/ Return
SpecDriver == InitDriver /\ [][NextDriver]_vars

\* A fresh Elaborator and the modules it is handed.
SigEmpty == sigma = [k \in SigmaKeys |-> Absent] /\ nholes = 0 /\ op = NoOp
InitDefs == SigEmpty /\ ResInit /\ GamInit
NextDefs == ElabDefs \/ Return
SpecDefs == InitDefs /\ [][NextDefs]_vars

InitElab == SigFresh /\ ResInit /\ GamInit
NextElab == ElabDef \/ ApplyVariant \/ ElabNext
SpecElab == InitElab /\ [][NextElab]_vars

-----------------------------------------------------------------------------
(* Claims about the resolver.                                              *)

\* The names a map binds.
Bound(mp) == {n \in RawNames : mp[n] # NoVar}

\* The direct subexpressions of a node, of every constructor, in source order.
SubExprs(e) ==
    CASE e.tag = "Let" -> IF e.typ = NoExpr THEN <<e.a, e.b>> ELSE <<e.typ, e.a, e.b>>
      [] e.tag \in {"Pi", "Sigma"} -> <<e.p.typ, e.b>>
      [] e.tag = "Lam" -> <<e.b>>
      [] e.tag \in {"Tuple", "Concat", "TupleLet"} -> <<e.a, e.b>>
      [] e.tag = "If" -> <<e.p, e.t, e.e>>
      [] e.tag = "Fields" -> [i \in 1..Len(e.fields) |-> e.fields[i].e]
      [] e.tag \in {"Obj", "Enum"} -> <<e.r>>
      [] e.tag \in {"Downcast", "Variant"} -> <<e.a>>
      [] OTHER -> <<>>

\* The subexpressions with the lexical scope of each: the last one of a
\* binder is in the scope of the variables the node binds.
Kids(scope, e) ==
    LET es == SubExprs(e)
        bs == IF e.tag \in {"Let", "Lam"} THEN {e.x.name}
              ELSE IF e.tag \in {"Pi", "Sigma"} THEN {e.p.var.name}
              ELSE IF e.tag = "TupleLet" THEN {e.x.name, e.y.name}
              ELSE {}
    IN [i \in 1..Len(es) |->
           [s |-> IF i = Len(es) THEN scope \cup bs ELSE scope, e |-> es[i]]]

RECURSIVE Nodes(_)
\* The nodes of an expression at every depth.
Nodes(e) == {e} \cup UNION {Nodes(SubExprs(e)[i]) : i \in DOMAIN SubExprs(e)}

\* The expressions of a definition: parameter types, return type and body.
DefExprs(d) ==
    {d.tele[i].typ : i \in DOMAIN d.tele} \cup {d.ret}
    \cup (IF d.body.tag = "Fun" THEN {d.body.t} ELSE {})
DefNodes(d) == UNION {Nodes(e) : e \in DefExprs(d)}

DupFields(n) ==
    /\ n.tag = "Fields"
    /\ \E i, j \in DOMAIN n.fields : i < j /\ n.fields[i].n = n.fields[j].n

RECURSIVE FirstUnbound(_, _)
RECURSIVE FirstIn(_, _)
\* The Loc of the first reference, in traversal order, to a name that is
\* not in scope; 0 when every reference is to a name in scope.
FirstUnbound(scope, e) ==
    IF e.tag = "Unresolved" THEN (IF e.name \in scope THEN 0 ELSE e.loc)
    ELSE FirstIn(Kids(scope, e), 1)
FirstIn(items, i) ==
    IF i > Len(items) THEN 0
    ELSE LET l == FirstUnbound(items[i].s, items[i].e)
         IN IF l # 0 THEN l ELSE FirstIn(SubSeq(items, 2, Len(items)), 1)

\* The same for a definition resolved under the name map entry: a parameter
\* is in scope after its own type, the definition's name in the return type
\* and in the body.
DefFirstUnbound(entry, d) ==
    LET params(k) == {d.tele[j].var.name : j \in 1..k}
        inner == Bound(entry) \cup params(Len(d.tele)) \cup {d.name.name}
    IN FirstIn([i \in 1..Len(d.tele) |->
                   [s |-> Bound(entry) \cup params(i - 1), e |-> d.tele[i].typ]]
               \o <<[s |-> inner, e |-> d.ret]>>
               \o (IF d.body.tag = "Fun" THEN <<[s |-> inner, e |-> d.body.t]>> ELSE <<>>),
               1)

Returned == rpc \in {"done", "failed"}

\* C5 (resolver scoping): when Resolver::def returns Ok, the name map is the
\* map the call was entered with plus the definition's own name; every
\* binder inside (Let, Pi, Lam, Sigma, TupleLet, the telescope) was undone,
\* also when two binders of a node have the same display name.
C5_ResolverScoping ==
    rpc = "done" => names = MapInsert(rEntry, rDef.name)

\* C6 (no unresolved reference survives): when Resolver::def returns Ok, the
\* resolved definition has no Unresolved node at any depth, the operands of
\* Obj, Concat, Enum, Variant and casts included.
C6_NoUnresolved ==
    rpc = "done" => \A n \in DefNodes(rOut.d) : n.tag # "Unresolved"

\* C7 (unbound names are reported): when a definition refers to a name that
\* is not in scope, Resolver::def fails with UnresolvedVar carrying the Loc
\* of the first such reference in traversal order, and returns no definition.
C7_UnresolvedVarFirst ==
    Returned =>
        LET l == DefFirstUnbound(rEntry, rDef)
        IN (l # 0 /\ rOut.err.kind # "DuplicateField") =>
              /\ rOut.st = "Err"
              /\ rOut.err = UnresolvedVar(l)
              /\ rOut.d = NoDef

\* What the resolver has done when it gets to parameter k of the telescope,
\* and to the return type.
TeleBefore(k) == ResolveTele(rEntry, SubSeq(rDef.tele, 1, k - 1), 1, <<>>, <<>>, <<>>)
TeleDone == TeleBefore(Len(rDef.tele) + 1)
RetDone == resolver_expr(MapInsert(TeleDone.map, rDef.name), rDef.ret)
SelfRef(e) == e.tag = "Unresolved" /\ e.name = rDef.name.name

\* A parameter type that is the definition's own name, which neither the
\* entry map nor a parameter up to this one binds, is an UnresolvedVar there.
SelfInTele ==
    \A k \in DOMAIN rDef.tele :
        LET p == rDef.tele[k]
        IN (/\ TeleBefore(k).st = "Ok"
            /\ SelfRef(p.typ)
            /\ MapInsert(TeleBefore(k).map, p.var)[rDef.name.name] = NoVar)
           => rOut.st = "Err" /\ rOut.err = UnresolvedVar(p.typ.loc)

\* `let x = x; b` with no binding of x around it is an UnresolvedVar at the
\* right-hand side.
SelfInLet ==
    (/\ rDef.body.tag = "Fun"
     /\ rDef.body.t.tag = "Let"
     /\ rDef.body.t.typ = NoExpr
     /\ rDef.body.t.a.tag = "Unresolved"
     /\ rDef.body.t.a.name = rDef.body.t.x.name
     /\ TeleDone.st = "Ok"
     /\ RetDone.st = "Ok"
     /\ RetDone.map[rDef.body.t.x.name] = NoVar)
    => rOut.st = "Err" /\ rOut.err = UnresolvedVar(rDef.body.t.a.loc)

\* The definition's own name as its return type or as its body resolves to
\* the definition's own Var.
SelfInRetResolves ==
    (SelfRef(rDef.ret) /\ TeleDone.st = "Ok")
    => /\ rOut.err # UnresolvedVar(rDef.ret.loc)
       /\ rOut.st = "Ok" => rOut.d.ret = Resolved(rDef.ret.loc, rDef.name)
SelfInBodyResolves ==
    (/\ rDef.body.tag = "Fun"
     /\ SelfRef(rDef.body.t)
     /\ TeleDone.st = "Ok"
     /\ RetDone.st = "Ok")
    => rOut.st = "Ok" /\ rOut.d.body = Fun(Resolved(rDef.body.t.loc, rDef.name))

C9_DuplicateField ==
    /\ (Returned /\ \E n \in DefNodes(rDef) : DupFields(n)) => rOut.st = "Err"
    /\ rpc = "done" => \A n \in DefNodes(rOut.d) : ~DupFields(n)


-----------------------------------------------------------------------------
(* Claims about the elaborator.                                            *)

\* Elaborator::def has returned (Ok or an error; a panic does not return).
ElabReturnedCall == gpc \in {"done", "failed"} /\ gOut.st \in {"Ok", "Err"}

\* C4 (Gamma stack discipline): when Elaborator::def returns, with Ok or
\* with an error, Gamma is what it was when def was called, and every call
\* of guarded_check or guarded_infer made on the way that returned (Ok or
\* error) left Gamma as it found it on entry, a binding of the same variable
\* already present at entry included.
C4_GammaStackDiscipline ==
    ElabReturnedCall =>
        /\ gamma = gEntry
        /\ \A c \in gOut.calls : c.exit = c.entry

\* The definition handed to def has one parameter of type Enum(Fields f) and
\* a body Switch(e, cases) on it, directly or under a Let.
SwitchOf(b) == IF b.tag = "Let" THEN b.b ELSE b
SwitchCall ==
    /\ ElabReturnedCall
    /\ Len(gCall.tele) = 1
    /\ gCall.tele[1].typ.tag = "Enum"
    /\ SwitchOf(gCall.body.t).tag = "Switch"
EnumLabels == {gCall.tele[1].typ.r.fields[i].n : i \in DOMAIN gCall.tele[1].typ.r.fields}
CaseTags == {SwitchOf(gCall.body.t).cs[i].n : i \in DOMAIN SwitchOf(gCall.body.t).cs}
ElabSwitch == IF gOut.tm.tag = "Let" THEN gOut.tm.b ELSE gOut.tm

\* C10 (Switch exhaustiveness): when a Switch on a scrutinee of type
\* Enum(Fields f) is accepted (the definition's return type permitting), its
\* elaborated case map has a case for every label of f, and normalizing it
\* on a variant of the enum returns Ok; a case list whose tags are labels of
\* f but leave a label uncovered is rejected with NonExhaustive, repeated
\* tags included; a case list with a tag not in f and every label covered is
\* rejected with UnresolvedField.
C10_SwitchExhaustive ==
    /\ (SwitchCall /\ gOut.st = "Ok") =>
          /\ ElabSwitch.tag = "Switch"
          /\ EnumLabels \subseteq DOMAIN ElabSwitch.cs
    /\ (SwitchCall /\ op.name = "normalize") => op.st = "Ok"
    /\ (SwitchCall /\ CaseTags \subseteq EnumLabels /\ CaseTags # EnumLabels) =>
          /\ gOut.st = "Err"
          /\ gOut.err.kind = "NonExhaustive"
    /\ (SwitchCall /\ ~(CaseTags \subseteq EnumLabels) /\ EnumLabels \subseteq CaseTags) =>
          /\ gOut.st = "Err"
          /\ gOut.err.kind = "UnresolvedField"

-----------------------------------------------------------------------------
(* Claims about Sigma, the unifier and the normalizer.                     *)

IsSolvedBody(b) == b.tag = "Meta" /\ b.s.tag = "Some"

\* C1 (meta monotonicity): once a meta has a solution Some(t), no call of
\* the unifier or of the normalizer (its write-back after a MetaRef and its
\* auto-solve included) changes that solution to another term or back to
\* None: every body the meta has after a solved body is that same body.
C1_MetaMonotonicity ==
    \A m \in MetaKeys : \A i, j \in DOMAIN sigma[m].hist :
        (i < j /\ IsSolvedBody(sigma[m].hist[i])) => sigma[m].hist[j] = sigma[m].hist[i]

\* C2 (unification soundness): whenever unify(a, b) returns Ok, the normal
\* forms of a and of b under the Sigma it leaves behind are the same term.
C2_UnifySound ==
    (op.name = "unify" /\ op.st = "Ok") =>
        LET na == Normalize(sigma, op.a)
            nb == Normalize(na.sigma, op.b)
        IN (na.st = "Ok" /\ nb.st = "Ok") => na.t = nb.t

\* C3 (Sigma is mutated monotonically): no key is ever removed, and the
\* body of an entry changes only from Undefined to a body or from
\* Meta(None) to Meta(Some), each at most once per entry.
C3_SigmaMonotone ==
    /\ \A k \in SigmaKeys : sigma[k].hist # <<>> => Has(sigma, k)
    /\ \A k \in SigmaKeys :
          LET h == sigma[k].hist
          IN /\ Len(h) <= 2
             /\ Len(h) = 2 =>
                   \/ h[1] = Undefined
                   \/ h[1] = MetaBody(None) /\ IsSolvedBody(h[2])

-----------------------------------------------------------------------------
(* Claims about interfaces and instance search.                            *)

\* The type t with the variable v replaced by x.
\* Elaborator::def of an `implements` definition has returned; op.a is its
\* body.
ImplementsCall == op.name = "def" /\ op.st \in {"Ok", "Err"}
\* The interface function's type with the alias replaced by the implementor
\* type is the type of the implementation function.
FnTypeMatches(e) ==
    Subst(sigma[e.i_fn].ret, sigma[e.i_fn].tele[1].var, sigma[op.a.ty].body.t)
        = sigma[e.im_fn].ret
MissingFn ==
    \E k \in DOMAIN sigma[op.a.i].body.fns : ~FnsHas(op.a.fns, sigma[op.a.i].body.fns[k])

SearchOn(tag) ==
    /\ op.name = "none"
    /\ op'.name = "normalize"
    /\ op'.st = "Ok"
    /\ op'.a.tag = tag
    /\ sigma["I"].body.ims # <<>>
    /\ (IF tag = "Find" THEN op'.a.ty ELSE op'.a.a).tag = "MetaRef"
    /\ sigma[(IF tag = "Find" THEN op'.a.ty ELSE op'.a.a).v].body = MetaBody(None)
\* The implementation of I registered last and its implementor type.
LastIm == sigma["I"].body.ims[Len(sigma["I"].body.ims)]
LastImTy == sigma[sigma[LastIm].body.ty].body.t

\* C12 (instance search order): discharging ImplementsOf(a, i) and
\* resolving Find(ty, i, f) both try the implementations of i in reverse
\* registration order: on an unsolved meta (which every implementation
\* unifies with) the implementation registered last is the one unified with
\* the target, and for Find its function is the one returned.
C12_SearchOrder ==
    [][/\ SearchOn("ImplementsOf") => sigma'[op'.a.a.v].body = MetaBody(Some(LastImTy))
       /\ SearchOn("Find") =>
             /\ sigma'[op'.a.ty.v].body = MetaBody(Some(LastImTy))
             /\ op'.t = Ref(FnsGet(sigma[LastIm].body.fns, op'.a.f))]_vars

\* What the term t stands for under sg: a solved meta is its solution.
RECURSIVE Value(_, _, _)
Value(sg, t, n) ==
    IF n > 0 /\ t.tag = "MetaRef" /\ IsSolvedBody(sg[t.v].body)
    THEN Value(sg, sg[t.v].body.s.t, n - 1)
    ELSE t
\* The implementations of I whose implementor type unifies with a: a stands
\* for an unsolved meta or for that very type.
Matching(a) ==
    {k \in DOMAIN sigma["I"].body.ims :
        \/ Value(sigma, a, MaxUnfold).tag = "MetaRef"
        \/ Value(sigma, a, MaxUnfold) = sigma[sigma[sigma["I"].body.ims[k]].body.ty].body.t}
ConstraintCall ==
    /\ op.name = "none"
    /\ op'.name = "normalize"
    /\ op'.a.tag = "ImplementsOf"
    /\ op'.st \in {"Ok", "Err"}

\* C13 (constraint discharge): normalizing ImplementsOf(a, i) with a not a
\* Ref returns the term unchanged if and only if some implementation
\* registered for i has an implementor type that unifies with a, and fails
\* with UnresolvedImplementation(a) when none does; with a a Ref it returns
\* the term unchanged without a search.
C13_ConstraintDischarge ==
    [][ConstraintCall =>
          /\ op'.a.a.tag = "Ref" => op'.st = "Ok" /\ op'.t = op'.a /\ sigma' = sigma
          /\ op'.a.a.tag # "Ref" =>
                /\ op'.st = "Ok" <=> Matching(op'.a.a) # {}
                /\ op'.st = "Ok" => op'.t = op'.a
                /\ op'.st = "Err" => op'.err = UnresolvedImplementation(op'.a.a)]_vars

-----------------------------------------------------------------------------
(* Claims about rows.                                                      *)

\* The rows small and big of the row constraint a normalize call was about.
SmallOf(tm) == IF tm.d = "Le" THEN tm.a.f ELSE tm.b.f
BigOf(tm) == IF tm.d = "Le" THEN tm.b.f ELSE tm.a.f
RowOrdCall == op.name = "normalize" /\ op.a.tag = "RowOrd"
\* Every label of small is a label of big with the same type (the rows of
\* the model hold closed base types, where to unify is to be equal).
SubRow(small, big) ==
    \A l \in DOMAIN small : l \in DOMAIN big /\ small[l] = big[l]

\* C14: unify_fields_ord(small, big) succeeds exactly when every label of
\* small is a label of big whose type unifies with small's; labels of big
\* that small lacks never fail it; and every failure, a missing label as
\* well as a label whose types do not unify, is reported as
\* NonRowSat(small, big).
C14_SubRow ==
    RowOrdCall =>
        /\ op.st = "Ok" <=> SubRow(SmallOf(op.a), BigOf(op.a))
        /\ op.st # "Ok" =>
              op.err = NonRowSat(Fields(SmallOf(op.a)), Fields(BigOf(op.a)))

CombineCall == op.name = "normalize" /\ op.a.tag = "Combine"
\* The normal form of the row term tm under the Sigma of the state.
RowNormal(tm) == Normalize(sigma, tm).t

\* C15: normalizing Combine(a, b) of two Fields maps gives the Fields map
\* over the labels of both that holds b's term at every label of b (the
\* merge is right-biased) and a's term elsewhere; when a and b share no
\* label, Combine(b, a) normalizes to the same map: the two results pass
\* unify_fields_eq in both directions.
C15_RowCommutative ==
    CombineCall =>
        /\ op.st = "Ok"
        /\ op.t.tag = "Fields"
        /\ DOMAIN op.t.f = DOMAIN op.a.a.f \cup DOMAIN op.a.b.f
        /\ \A l \in DOMAIN op.a.b.f : op.t.f[l] = op.a.b.f[l]
        /\ \A l \in DOMAIN op.a.a.f \ DOMAIN op.a.b.f : op.t.f[l] = op.a.a.f[l]
        /\ DOMAIN op.a.a.f \cap DOMAIN op.a.b.f = {} =>
              /\ RowNormal(Combine(op.a.b, op.a.a)).tag = "Fields"
              /\ unify_fields_eq(sigma, op.t.f, RowNormal(Combine(op.a.b, op.a.a)).f,
                                 MaxUnfold).st = "Ok"
              /\ unify_fields_eq(sigma, RowNormal(Combine(op.a.b, op.a.a)).f, op.t.f,
                                 MaxUnfold).st = "Ok"

\* Two non-empty rows without a common label were combined.
C15_Witness ==
    /\ CombineCall
    /\ op.st = "Ok"
    /\ DOMAIN op.a.a.f = {"A"}
    /\ DOMAIN op.a.b.f = {"B"}
    /\ op.a.a.f["A"] # op.a.b.f["B"]

-----------------------------------------------------------------------------
(* Claims about the normalizer.                                            *)

\* A fresh normalizer has returned for the normal form op.a of the term
\* op.b.
Renormalized == op.name = "renormalize"

\* C16: normalization is idempotent: a fresh normalizer over the Sigma the
\* first one left behind returns the normal form it is given unchanged,
\* for terms stuck on a meta under If, Let or TupleLet, references Undef to
\* definitions, and solved or auto-solvable metas among them.
C16_Idempotent ==
    Renormalized => op.st = "Ok" /\ op.t = op.a

\* A step in which the normalizer is called on App(Lam(p, b), x).
BetaCall ==
    /\ op.name = "none"
    /\ op'.name = "normalize"
    /\ op'.a.tag = "App"
    /\ op'.a.f.tag = "Lam"
\* The argument x normalizes to a meta under the Sigma of the state.
ArgIsMeta(x) == Normalize(sigma, x).st = "Ok" /\ Normalize(sigma, x).t.tag = "MetaRef"

\* C17: the normalizer takes App(Lam(p, b), x), when x does not normalize
\* to a meta, to what it takes b with p.var replaced by x to; when x
\* normalizes to a meta x', the application is not reduced and the result
\* is App(f', x') for the normal form f' of the Lam.
C17_Beta ==
    [][BetaCall =>
          IF ArgIsMeta(op'.a.x)
          THEN /\ op'.st = "Ok"
               /\ op'.t = TermApp(Normalize(sigma, op'.a.f).t,
                                  Normalize(Normalize(sigma, op'.a.f).sigma, op'.a.x).t)
          ELSE /\ op'.st = Normalize(sigma, Subst(op'.a.f.b, op'.a.f.p.var, op'.a.x)).st
               /\ op'.t = Normalize(sigma, Subst(op'.a.f.b, op'.a.f.p.var, op'.a.x)).t]_vars

-----------------------------------------------------------------------------
(* Claims about Elaborator::defs.                                          *)

\* The terms a term is built of.
Parts(t) ==
    CASE t.tag = "Tuple" -> {t.a, t.b}
      [] t.tag = "If" -> {t.p, t.t, t.e}
      [] t.tag = "Let" -> {t.p.typ, t.a, t.b}
      [] OTHER -> {}
\* The term t reaches, through its parts and the solutions of the metas it
\* refers to, a meta whose entry in sg is still Meta(None).
RECURSIVE ReachesUnsolved(_, _, _)
ReachesUnsolved(sg, t, n) ==
    IF n = 0 THEN FALSE
    ELSE IF t.tag = "MetaRef"
    THEN \/ sg[t.v].body.s.tag = "None"
         \/ ReachesUnsolved(sg, sg[t.v].body.s.t, n - 1)
    ELSE \E u \in Parts(t) : ReachesUnsolved(sg, u, n - 1)

\* Elaborator::defs has returned Ok; op.a is the module and op.t the Defs
\* returned.
DefsCall == op.name = "defs" /\ op.st = "Ok"

\* C18: when Elaborator::defs succeeds it returns one Def for each input
\* definition, in input order; the body of each, in the Vec and in Sigma,
\* is not Undefined; and neither its return type nor its body reaches a
\* meta that Sigma still holds unsolved.
C18_FullyElaborated ==
    DefsCall =>
        /\ Len(op.t) = Len(op.a)
        /\ \A i \in DOMAIN op.t :
              /\ op.t[i].name = op.a[i].name
              /\ op.t[i].def.body.tag = "Fun"
              /\ sigma[op.t[i].name].body.tag = "Fun"
              /\ ~ReachesUnsolved(sigma, op.t[i].def.ret, MaxUnfold)
              /\ ~ReachesUnsolved(sigma, op.t[i].def.body.t, MaxUnfold)

-----------------------------------------------------------------------------
(* Claims about the code generator.                                        *)

\* The type t holds a Ref: it is one, or its Pi parameter or body, one of
\* its Fields values, or the row under its Object or Enum holds one.
RECURSIVE ContainsRef(_)
ContainsRef(t) ==
    CASE t.tag = "Ref" -> TRUE
      [] t.tag = "Pi" -> ContainsRef(t.p.typ) \/ ContainsRef(t.b)
      [] t.tag = "Fields" -> \E l \in DOMAIN t.f : ContainsRef(t.f[l])
      [] t.tag \in {"Object", "Enum"} -> ContainsRef(t.r)
      [] OTHER -> FALSE
MangleHktCall == op.name = "mangle_hkt"

\* C19: mangle_hkt over type arguments built of Pi, Unit, Boolean, String,
\* Number, BigInt, Fields, Object, Enum and Ref returns NonErasable of a
\* Ref exactly when one of the arguments holds a Ref at some depth, and
\* otherwise returns a string that starts with the name.
C19_ErasureSafety ==
    MangleHktCall =>
        /\ op.st \in {"Ok", "Err"}
        /\ op.st = "Err" <=> \E k \in DOMAIN op.a : ContainsRef(op.a[k])
        /\ op.st = "Err" => op.err = NonErasable(Ref("T"))
        /\ op.st = "Ok" => Len(op.t) >= 1 /\ op.t[1] = "f"

\* A Ref under an Object inside a Pi parameter was refused.
C19_Witness ==
    /\ MangleHktCall
    /\ op.st = "Err"
    /\ Len(op.a) = 1
    /\ op.a[1].tag = "Pi"
    /\ op.a[1].p.typ.tag = "Object"
    /\ ContainsRef(op.a[1].p.typ)

-----------------------------------------------------------------------------
(* Claims about the driver.                                                *)

RunCall == op.name = "run"
\* The file of module m that event number i is about.
FileAt(i) ==
    CHOOSE f \in {op.a[op.t[i].module][k] : k \in DOMAIN op.a[op.t[i].module]} :
        f.name = op.t[i].file
\* Before event number i, the event e has happened.
Before(i, e) == \E j \in 1..(i - 1) : op.t[j] = e

\* C20: in every run of the driver, no file outside the prelude is
\* resolved or elaborated before every file of the prelude was elaborated
\* and registered as built-ins, and no file is resolved or elaborated
\* before each module it imports was completely loaded, that is, handed to
\* the code generator.
C20_LoadOrdering ==
    RunCall =>
        \A i \in DOMAIN op.t :
            op.t[i].ev \in {"resolve", "elab"} =>
                /\ op.t[i].module # "prelude" =>
                      \A k \in DOMAIN op.a["prelude"] :
                          Before(i, Event("builtin", "prelude", op.a["prelude"][k].name))
                /\ \A k \in DOMAIN FileAt(i).imports :
                      Before(i, Event("codegen", FileAt(i).imports[k], ""))

-----------------------------------------------------------------------------
(* Claims about metas.                                                     *)

\* A step in which the normalizer is called on a reference to a meta.
MetaCall ==
    /\ op.name = "none"
    /\ op'.name = "normalize"
    /\ op'.a.tag = "MetaRef"
\* The return type of the meta m, normalized under the Sigma of the state.
RetNormal(m) == Normalize(sigma, sigma[m].ret)
\* The witness of a constraint type.
WitnessOf(ty) ==
    CASE ty.tag = "RowEq" -> RowRefl
      [] ty.tag = "RowOrd" -> RowSat
      [] ty.tag = "ImplementsOf" -> ImplementsSat
\* The solution s of a meta with the arguments sp in place of the
\* variables of its telescope, up to the k-th.
RECURSIVE SubstTele(_, _, _, _)
SubstTele(s, tele, sp, k) ==
    IF k = 0 THEN s
    ELSE Subst(SubstTele(s, tele, sp, k - 1), tele[k].var, sp[k])

\* C21: the normalizer on MetaRef(k, m, sp), when the return type of m
\* normalizes: an unsolved m whose normalized return type is RowEq, RowOrd
\* or ImplementsOf becomes solved with RowRefl, RowSat or ImplementsSat in
\* Sigma and that witness is returned; an unsolved m of another return
\* type stays unsolved and the MetaRef is returned with its spine as
\* given; a solved m gives the normal form of its solution with the spine
\* arguments in place of the telescope variables, in order.
\* The normal form the claim gives for a reference to the solved meta m
\* with the spine sp.
SolvedNormal(m, sp) ==
    Normalize(sigma, SubstTele(sigma[m].body.s.t, sigma[m].tele, sp, Len(sp)))
C21_MetaRefNormal ==
    [][(MetaCall /\ RetNormal(op'.a.v).st = "Ok") =>
          IF sigma[op'.a.v].body.s.tag = "None"
          THEN /\ op'.st = "Ok"
               /\ IF RetNormal(op'.a.v).t.tag \in {"RowEq", "RowOrd", "ImplementsOf"}
                  THEN /\ op'.t = WitnessOf(RetNormal(op'.a.v).t)
                       /\ sigma'[op'.a.v].body = MetaBody(Some(op'.t))
                  ELSE /\ op'.t = op'.a
                       /\ sigma'[op'.a.v].body = MetaBody(None)
          ELSE /\ op'.st = SolvedNormal(op'.a.v, op'.a.sp).st
               /\ op'.st = "Ok" => op'.t = SolvedNormal(op'.a.v, op'.a.sp).t]_vars

\* A reference to an unsolved meta of a RowOrd type, with a spine of two
\* arguments, was normalized to RowSat and the meta is solved with it.
C21_Witness ==
    /\ op.name = "normalize"
    /\ op.st = "Ok"
    /\ op.a.tag = "MetaRef"
    /\ Len(op.a.sp) = 2
    /\ op.t = RowSat
    /\ sigma[op.a.v].ret.tag = "RowOrd"
    /\ sigma[op.a.v].body = MetaBody(Some(RowSat))
    /\ sigma[op.a.v].hist[Len(sigma[op.a.v].hist) - 1] = MetaBody(None)

-----------------------------------------------------------------------------
(* Claims about implicit insertion.                                        *)

\* The parameters of a chain of Pi's, in order.
RECURSIVE ParamsOf(_)
ParamsOf(ty) == IF ty.tag # "Pi" THEN <<>> ELSE <<ty.p>> \o ParamsOf(ty.b)
\* The index of the first parameter of ps named n, and of the first one
\* that is not implicit; 0 if there is none.
FirstNamed(ps, n) ==
    IF \E j \in 1..Len(ps) : ps[j].var = n
    THEN CHOOSE j \in 1..Len(ps) : ps[j].var = n /\ \A l \in 1..(j - 1) : ps[l].var # n
    ELSE 0
FirstExplicit(ps) ==
    IF \E j \in 1..Len(ps) : ps[j].info # "Implicit"
    THEN CHOOSE j \in 1..Len(ps) :
             ps[j].info # "Implicit" /\ \A l \in 1..(j - 1) : ps[l].info = "Implicit"
    ELSE 0
\* The callee of the call in op is the callee e in n more holes.
WrappedIn(e, n) ==
    /\ HolesOf(op.t.t) = HolesOf(e) + n
    /\ op.t.t = HoledApps(e, n)
InsertCall == op.name = "app_insert_holes"
HeadImplicit(ty) == ty.tag = "Pi" /\ ty.p.info = "Implicit"

\* C22: app_insert_holes on a callee whose type is a chain of Pi's.  With
\* NamedImplicit(n) and an implicit head: when the first parameter named n
\* comes before every explicit parameter, the callee is wrapped in exactly
\* as many inserted holes as implicit parameters precede it, None for no
\* hole; when an explicit parameter is reached before a parameter named n
\* is found, the call fails with UnresolvedImplicitParam(n).  With
\* UnnamedExplicit and an implicit head the callee is wrapped in one hole,
\* and when re-inference ends the callee has as many holes as the type had
\* implicit parameters before its first explicit one.  With
\* UnnamedImplicit, or a head that is no implicit Pi, nothing is inserted.
C22_ImplicitInsertion ==
    InsertCall =>
       LET ps == ParamsOf(op.a.ty)
           j == FirstNamed(ps, "n")
           x == FirstExplicit(ps)
       IN  /\ (op.a.i.tag = "NamedImplicit" /\ HeadImplicit(op.a.ty)) =>
                /\ (j # 0 /\ (x = 0 \/ j < x)) =>
                       /\ op.st = "Ok"
                       /\ IF j = 1 THEN op.t = None
                          ELSE op.t.tag = "Some" /\ WrappedIn(op.a.e, j - 1)
                /\ (x # 0 /\ (j = 0 \/ x <= j)) =>
                       /\ op.st = "Err"
                       /\ op.err = UnresolvedImplicitParam("n", op.a.e.loc)
           /\ (op.a.i.tag = "UnnamedExplicit" /\ HeadImplicit(op.a.ty)) =>
                op.st = "Ok" /\ op.t.tag = "Some" /\ WrappedIn(op.a.e, 1)
           /\ op.a.i.tag = "UnnamedExplicit" =>
                /\ HolesOf(op.a.e) <= FirstExplicit(ParamsOf(op.b)) - 1
                      \/ (FirstExplicit(ParamsOf(op.b)) = 0
                            /\ HolesOf(op.a.e) <= Len(ParamsOf(op.b)))
                /\ (op.st = "Ok" /\ op.t = None) =>
                      HolesOf(op.a.e) = (IF FirstExplicit(ParamsOf(op.b)) = 0
                                         THEN Len(ParamsOf(op.b))
                                         ELSE FirstExplicit(ParamsOf(op.b)) - 1)
           /\ (op.a.i.tag = "UnnamedImplicit" \/ ~HeadImplicit(op.a.ty)) =>
                op.st = "Ok" /\ op.t = None

\* A call with NamedImplicit(n) on a type whose third parameter is the
\* first one named n wrapped the callee in two holes.
C22_Witness ==
    /\ InsertCall
    /\ op.a.i = NamedImplicit("n")
    /\ HolesOf(op.a.e) = 0
    /\ FirstNamed(ParamsOf(op.a.ty), "n") = 3
    /\ op.st = "Ok"
    /\ op.t.tag = "Some"
    /\ HolesOf(op.t.t) = 2

-----------------------------------------------------------------------------
(* Claims about the allocation of metas.                                   *)

\* The metas a term refers to.
RECURSIVE MetasOf(_)
MetasOf(t) ==
    CASE t.tag = "MetaRef" -> {t.v} \cup UNION {MetasOf(t.sp[k]) : k \in DOMAIN t.sp}
      [] t.tag \in {"Tuple", "RowEq", "RowOrd"} -> MetasOf(t.a) \cup MetasOf(t.b)
      [] t.tag = "ImplementsOf" -> MetasOf(t.a)
      [] t.tag = "Find" -> MetasOf(t.ty)
      [] t.tag = "Fields" -> UNION {MetasOf(t.f[l]) : l \in DOMAIN t.f}
      [] OTHER -> {}
\* The metas the entry d of Sigma refers to: in its telescope, its return
\* type and its solution.
MetasOfDef(d) ==
    MetasOf(d.ret)
    \cup UNION {MetasOf(d.tele[k].typ) : k \in DOMAIN d.tele}
    \cup (IF d.body.tag = "Meta" /\ d.body.s.tag = "Some" THEN MetasOf(d.body.s.t) ELSE {})
\* The metas the terms of the state refer to: the entries of Sigma and the
\* terms returned by insert_meta and the normalizer.
MetasInState ==
    UNION {MetasOfDef(sigma[k]) : k \in {v \in DOMAIN sigma : Has(sigma, v)}}
    \cup (IF op.name = "insert_meta" THEN MetasOf(op.t) \cup MetasOf(op.b) ELSE {})
    \cup (IF op.name = "normalize" /\ op.st = "Ok" THEN MetasOf(op.t) ELSE {})
\* A step of insert_meta.
InsertMetaStep == op.name = "none" /\ op'.name = "insert_meta"
\* The keys Sigma holds after the step and did not hold before.
NewKeys == {v \in DOMAIN sigma' : Has(sigma', v) /\ ~Has(sigma, v)}

\* C23: every MetaRef in the state refers to an entry of Sigma whose body
\* is Meta; and insert_meta adds exactly two entries under keys Sigma did
\* not hold, both Meta(None): the meta of the returned type, with an empty
\* telescope and the return type Univ, and the meta of the returned term,
\* whose telescope holds the parameters of Gamma and whose return type is
\* the reference to the type meta; every other entry of Sigma stays as it
\* was.
C23_MetaAllocation ==
    /\ [](\A m \in MetasInState : Has(sigma, m) /\ sigma[m].body.tag = "Meta")
    /\ [][InsertMetaStep =>
            /\ op'.t.tag = "MetaRef" /\ op'.b.tag = "MetaRef"
            /\ op'.t.v # op'.b.v
            /\ NewKeys = {op'.t.v, op'.b.v}
            /\ sigma'[op'.b.v] = Def(<<>>, Univ, MetaBody(None))
            /\ sigma'[op'.t.v].body = MetaBody(None)
            /\ sigma'[op'.t.v].ret = MetaRef(op'.b.v)
            /\ {<<p.var, p.typ>> : p \in {sigma'[op'.t.v].tele[k] :
                                              k \in DOMAIN sigma'[op'.t.v].tele}}
                 = {<<v, op'.a[v]>> : v \in GammaBound(op'.a)}
            /\ Len(sigma'[op'.t.v].tele) = Cardinality(GammaBound(op'.a))
            /\ \A v \in DOMAIN sigma : Has(sigma, v) => sigma'[v] = sigma[v]]_vars

\* insert_meta under a Gamma of two variables has added the two metas of
\* the hole to a Sigma that held entries before.
C23_Witness ==
    /\ op.name = "insert_meta"
    /\ Cardinality(GammaBound(op.a)) = 2
    /\ Len(sigma[op.t.v].tele) = 2
    /\ sigma[op.t.v].ret = op.b
    /\ Has(sigma, "I")

-----------------------------------------------------------------------------
(* Claims about the termination of the unifier.                            *)

UnifyDone == op.name = "unify"
\* t is a reference to a definition of Sigma whose body is Postulate.
PostulatedRef(t) ==
    t.tag = "Ref" /\ Has(sigma, t.v) /\ sigma[t.v].body.tag = "Postulate"

\* C24: every call of unify returns, and a call on a reference to a
\* postulate and a term that is neither that reference nor a MetaRef, a
\* base type or the reference to another postulate, returns NonUnifiable.
C24_UnifyTerminates ==
    UnifyDone =>
        /\ op.st # "Diverge"
        /\ (/\ PostulatedRef(op.a)
            /\ op.b # op.a
            /\ op.b \in {Number, String} \/ PostulatedRef(op.b))
               => (op.st = "Err" /\ op.err.kind = "NonUnifiable")

-----------------------------------------------------------------------------
(* Claims about the solutions of metas.                                    *)

\* The metas the solution of the meta m refers to.
SolvedBy(m) ==
    IF Has(sigma, m) /\ sigma[m].body.tag = "Meta" /\ sigma[m].body.s.tag = "Some"
    THEN MetasOf(sigma[m].body.s.t)
    ELSE {}
\* The metas reached from the metas ms through at most n solutions.
RECURSIVE ReachFrom(_, _)
ReachFrom(ms, n) ==
    IF n = 0 THEN ms
    ELSE ReachFrom(ms \cup UNION {SolvedBy(m) : m \in ms}, n - 1)

\* C25: no meta is solved by a term that refers to the meta itself, in one
\* step or through the solutions of other metas, and no normalizer call
\* unfolds solved metas without end.
C25_OccursCheck ==
    /\ \A m \in MetaKeys : m \notin ReachFrom(SolvedBy(m), Cardinality(MetaKeys))
    /\ op.name = "normalize" => op.st # "Diverge"

-----------------------------------------------------------------------------
(* Claims about failed unification.                                        *)

\* A step in which unify is called and returns an error.
UnifyFails ==
    /\ op.name = "none"
    /\ op'.name = "unify"
    /\ op'.st = "Err"

\* C26: a call of unify that returns an error leaves Sigma as it was
\* before the call.
C26_FailedUnifyNoEffect == [][UnifyFails => sigma' = sigma]_vars

-----------------------------------------------------------------------------
(* Claims about rejected implements blocks.                                *)

\* A step in which Elaborator::def on an implements block returns an error
\* of check_implements_body.
ImplementsRejected ==
    /\ op.name = "none"
    /\ op'.name = "def"
    /\ op'.a.tag = "Implements"
    /\ op'.st = "Err"

\* C27: when check_implements_body fails, the ims of the interface I are
\* the list they were before the call.
C27_RejectedNotRegistered ==
    [][ImplementsRejected => sigma'["I"].body.ims = sigma["I"].body.ims]_vars

-----------------------------------------------------------------------------
(* Claims about row-constraint witnesses.                                  *)

\* A step in which the normalizer solves the unsolved meta it was called
\* on with a row witness.
RowWitnessStep ==
    /\ MetaCall
    /\ sigma[op'.a.v].body = MetaBody(None)
    /\ sigma'[op'.a.v].body \in {MetaBody(Some(RowSat)), MetaBody(Some(RowRefl))}

\* C28: an unsolved meta is solved with RowSat or RowRefl only when both
\* rows of its normalized return type are Fields (so that the field check
\* has run and passed); while a row is a Ref or an unsolved MetaRef the
\* meta stays unsolved.
C28_CheckedWitness ==
    [][RowWitnessStep =>
          /\ RetNormal(op'.a.v).st = "Ok"
          /\ RetNormal(op'.a.v).t.a.tag = "Fields"
          /\ RetNormal(op'.a.v).t.b.tag = "Fields"]_vars

-----------------------------------------------------------------------------
(* Claims about loading a module once.                                     *)

\* The number of times the event at position i of the log happened.
TimesOf(i) == Cardinality({j \in DOMAIN op.t : op.t[j] = op.t[i]})

\* C29: a run of the driver ends without exhausting the stack, and in its
\* log no file is parsed, resolved or elaborated twice and no module is
\* handed to the code generator twice.
C29_LoadedOnce ==
    RunCall =>
        /\ op.st # "Overflow"
        /\ \A i \in DOMAIN op.t : TimesOf(i) = 1

-----------------------------------------------------------------------------
(* Claims about the injectivity of mangling.                               *)

\* C30: when mangle_hkt returns a name for a list of erasable type
\* arguments, no other list of as many erasable type arguments gets the
\* same name.
C30_MangleInjective ==
    (MangleHktCall /\ op.st = "Ok") =>
        \A ts \in TypeLists :
            (/\ Len(ts) = Len(op.a)
             /\ mangle_hkt("f", ts).st = "Ok"
             /\ mangle_hkt("f", ts).s = op.t) => ts = op.a

====
